---- MODULE Spec2Model ----
(***************************************************************************)
(* Model of the REDCap recruitment dashboard: the record normaliser of     *)
(* RedcapApiService, the batched fetch, and the dashboard's distribution   *)
(* and cumulative/projection computations.                                 *)
(*                                                                         *)
(* Numbers.  JavaScript numbers are modelled exactly: a value is           *)
(* undefined, NaN or an integer; the fractional intermediate values of     *)
(* processCumulativeData (average growth, target rate, standard deviation) *)
(* are kept as exact fractions and radicals, and Math.round is computed on *)
(* them as floor(x + 1/2).                                                 *)
(*                                                                         *)
(* Time.  An instant is a number of hours since 1970-01-01 00:00 local     *)
(* time, or the invalid date; the local zone has no daylight saving.       *)
(***************************************************************************)
EXTENDS Integers, Sequences, FiniteSets, TLC

VARIABLES
    now,                \* the instant new Date() returns while rendering
    data,               \* useState<ParticipantData[]>
    selectedGene,       \* useState 'ALL'
    selectedGroup,      \* useState 'age'
    selectedTimestamp,  \* useState ''
    targetDate,         \* useState: the target date text
    targetNumber,       \* useState: the target number text
    monthlyTarget,      \* useState: the monthly trend override text
    loading,            \* useState true: first load not finished
    isLoading,          \* useState false: a fetch is running
    error,              \* useState<string | null>
    redcapConfig,       \* the redcapConfig prop: the group and timestamp fields
    svc,                \* the fetchRecruitmentData call in progress
    records,            \* argument of processParticipantData
    participants,       \* result of processParticipantData
    averageMonthlyGrowth, \* useState 0: the historical growth shown in the tooltip
    appConfig,          \* App: useState config, as the fields object it refers to
    pageConfig,         \* ConfigPage: useState config, as the fields object it refers to
    fieldsObjects,      \* the fields objects of the configurations, by identity
    savedConfig,        \* localStorage item 'redcapConfig'
    cache,              \* localStorage items under the cache key prefix, by timestamp
    cacheKey            \* saveToCache: the key written by the last call

vars == <<now, data, selectedGene, selectedGroup, selectedTimestamp, targetDate,
          targetNumber, monthlyTarget, loading, isLoading, error, redcapConfig, svc,
          records, participants, averageMonthlyGrowth, appConfig, pageConfig,
          fieldsObjects, savedConfig, cache, cacheKey>>

dashVars == <<now, data, selectedGene, selectedGroup, selectedTimestamp, targetDate,
              targetNumber, monthlyTarget, loading, isLoading, error, redcapConfig,
              averageMonthlyGrowth>>

normVars == <<records, participants>>

pageVars == <<appConfig, pageConfig, fieldsObjects, savedConfig>>

cacheVars == <<cache, cacheKey>>

-----------------------------------------------------------------------------
(* JavaScript values *)

Undefined == [k |-> "undefined", v |-> 0]
NaN == [k |-> "NaN", v |-> 0]
Num(n) == [k |-> "number", v |-> n]
IsNum(x) == x.k = "number"

\* x || 0 on a number | undefined
OrZero(x) == IF IsNum(x) THEN x.v ELSE 0

Max(a, b) == IF a >= b THEN a ELSE b
Min(a, b) == IF a <= b THEN a ELSE b
Abs(a) == IF a < 0 THEN 0 - a ELSE a

\* Math.max on an integer and a number that may be NaN
MathMax(a, x) == IF IsNum(x) THEN Num(Max(a, x.v)) ELSE NaN

RECURSIVE SumSeq(_)
SumSeq(s) == IF s = <<>> THEN 0 ELSE Head(s) + SumSeq(Tail(s))

RECURSIVE SqrtSearch(_, _, _)
SqrtSearch(n, lo, hi) ==
    IF lo >= hi THEN lo
    ELSE LET mid == (lo + hi + 1) \div 2
         IN IF mid * mid <= n THEN SqrtSearch(n, mid, hi) ELSE SqrtSearch(n, lo, mid - 1)

\* floor and ceiling of the square root of n >= 0 (46340 is the largest root whose
\* square is a 32-bit integer)
FloorSqrt(n) == SqrtSearch(n, 0, Min(n, 46340))
CeilSqrt(n) == LET r == FloorSqrt(n) IN IF r * r = n THEN r ELSE r + 1

\* Text typed into a field: a sequence of characters.
Digits == {"0", "1", "2", "3", "4", "5", "6", "7", "8", "9"}
DigitVal(c) ==
    CASE c = "0" -> 0 [] c = "1" -> 1 [] c = "2" -> 2 [] c = "3" -> 3 [] c = "4" -> 4
      [] c = "5" -> 5 [] c = "6" -> 6 [] c = "7" -> 7 [] c = "8" -> 8 [] c = "9" -> 9

RECURSIVE SkipSpaces(_)
SkipSpaces(s) == IF s # <<>> /\ Head(s) = " " THEN SkipSpaces(Tail(s)) ELSE s

RECURSIVE DigitPrefix(_)
DigitPrefix(s) ==
    IF s # <<>> /\ Head(s) \in Digits THEN <<Head(s)>> \o DigitPrefix(Tail(s)) ELSE <<>>

RECURSIVE DigitsValue(_, _)
DigitsValue(s, acc) ==
    IF s = <<>> THEN acc ELSE DigitsValue(Tail(s), 10 * acc + DigitVal(Head(s)))

\* parseInt(text): leading blanks, an optional sign, then the longest run of
\* digits; NaN when there is no digit there.
parseInt(s) ==
    LET t == SkipSpaces(s)
        neg == t # <<>> /\ Head(t) = "-"
        u == IF t # <<>> /\ Head(t) \in {"-", "+"} THEN Tail(t) ELSE t
        ds == DigitPrefix(u)
    IN IF ds = <<>> THEN NaN
       ELSE Num(IF neg THEN 0 - DigitsValue(ds, 0) ELSE DigitsValue(ds, 0))

-----------------------------------------------------------------------------
(* Dates: the JavaScript Date and the date-fns functions the dashboard uses *)

InvalidDate == [valid |-> FALSE, t |-> 0]
Instant(day, hour) == [valid |-> TRUE, t |-> day * 24 + hour]

IsLeap(y) == (y % 4 = 0 /\ y % 100 # 0) \/ y % 400 = 0

\* m is the JavaScript month index, 0..11
DaysInMonth(y, m) ==
    IF m = 1 THEN (IF IsLeap(y) THEN 29 ELSE 28)
    ELSE IF m \in {3, 5, 8, 10} THEN 30 ELSE 31

\* days from 1970-01-01 to the first of January of year y
DayFromYear(y) ==
    365 * (y - 1970) + ((y - 1969) \div 4) - ((y - 1901) \div 100) + ((y - 1601) \div 400)

RECURSIVE DaysBeforeMonth(_, _)
DaysBeforeMonth(y, m) ==
    IF m = 0 THEN 0 ELSE DaysBeforeMonth(y, m - 1) + DaysInMonth(y, m - 1)

\* The years the model's dates lie in, and the calendar of those years computed
\* once: the day number of the first of each month, and the year, month index
\* and day of the month of each day.
Years == 2021 .. 2027
MonthStart == [y \in Years |-> [m \in 0 .. 11 |-> DayFromYear(y) + DaysBeforeMonth(y, m)]]
Civil ==
    [n \in MonthStart[2021][0] .. MonthStart[2027][11] + 30 |->
        LET y == CHOOSE yy \in Years : MonthStart[yy][0] <= n /\ n < MonthStart[yy][0] + 365
                                                                     + (IF IsLeap(yy) THEN 1 ELSE 0)
            m == CHOOSE mm \in 0 .. 11 :
                     MonthStart[y][mm] <= n /\ n < MonthStart[y][mm] + DaysInMonth(y, mm)
        IN [year |-> y, month |-> m, date |-> n - MonthStart[y][m] + 1]]

\* new Date(y, m, d) at hour h: month and day overflow carry, as in JavaScript
JsDate(y, m, d, h) == Instant(MonthStart[y + (m \div 12)][m % 12] + d - 1, h)

DayOf(date) == date.t \div 24
getHours(date) == date.t % 24
getFullYear(date) == Civil[DayOf(date)].year
getMonth(date) == Civil[DayOf(date)].month
getDate(date) == Civil[DayOf(date)].date
\* 0 is Sunday; 1970-01-01 was a Thursday
getDay(date) == (DayOf(date) + 4) % 7

\* comparisons of Dates: every comparison with the invalid date is false
DateLeq(a, b) == a.valid /\ b.valid /\ a.t <= b.t
DateGt(a, b) == a.valid /\ b.valid /\ a.t > b.t
isAfter(date, dateToCompare) == DateGt(date, dateToCompare)
compareAsc(a, b) == IF a.t < b.t THEN 0 - 1 ELSE IF a.t > b.t THEN 1 ELSE 0

\* A date text: undefined, the empty string, a text that is no ISO date, or an
\* ISO text with its year, month (1..12), day and hour fields.
UndefinedText == [k |-> "undefined", y |-> 0, m |-> 0, d |-> 0, h |-> 0]
EmptyText == [k |-> "empty", y |-> 0, m |-> 0, d |-> 0, h |-> 0]
OtherText == [k |-> "text", y |-> 0, m |-> 0, d |-> 0, h |-> 0]
IsoText(y, m, d, h) == [k |-> "iso", y |-> y, m |-> m, d |-> d, h |-> h]

\* recordDateStr && typeof recordDateStr === 'string'
IsNonEmptyString(s) == s.k \in {"text", "iso"}

parseISO(s) ==
    IF s.k = "iso" /\ s.m \in 1 .. 12 /\ s.d >= 1 /\ s.d <= DaysInMonth(s.y, s.m - 1)
       /\ s.h \in 0 .. 23
    THEN JsDate(s.y, s.m - 1, s.d, s.h)
    ELSE InvalidDate

addMonths(date, amount) ==
    LET dayOfMonth == getDate(date)
        m == getMonth(date) + amount
        yy == getFullYear(date) + (m \div 12)
        mm == m % 12
        daysInMonth == DaysInMonth(yy, mm)
    IN IF dayOfMonth >= daysInMonth
       THEN JsDate(yy, mm, daysInMonth, getHours(date))
       ELSE JsDate(yy, mm, dayOfMonth, getHours(date))

subMonths(date, amount) == addMonths(date, 0 - amount)

differenceInCalendarMonths(l, r) ==
    (getFullYear(l) - getFullYear(r)) * 12 + (getMonth(l) - getMonth(r))

isLastDayOfMonth(date) == getDate(date) = DaysInMonth(getFullYear(date), getMonth(date))

\* whole months from dateRight to dateLeft, truncated towards zero; NaN when
\* either date is invalid
differenceInMonths(dateLeft, dateRight) ==
    IF ~dateLeft.valid \/ ~dateRight.valid THEN NaN
    ELSE
      LET sign == compareAsc(dateLeft, dateRight)
          difference == Abs(differenceInCalendarMonths(dateLeft, dateRight))
          l1 == IF getMonth(dateLeft) = 1 /\ getDate(dateLeft) > 27
                THEN JsDate(getFullYear(dateLeft), 1, 30, getHours(dateLeft))
                ELSE dateLeft
          l2 == JsDate(getFullYear(l1), getMonth(l1) - sign * difference, getDate(l1),
                       getHours(l1))
          notFull == IF isLastDayOfMonth(dateLeft) /\ difference = 1
                        /\ compareAsc(dateLeft, dateRight) = 1
                     THEN FALSE
                     ELSE compareAsc(l2, dateRight) = 0 - sign
      IN IF difference < 1 THEN Num(0)
         ELSE Num(sign * (difference - (IF notFull THEN 1 ELSE 0)))

\* startOfWeek with the default weekStartsOn (Sunday): midnight of that day
startOfWeek(date) == Instant(DayOf(date) - getDay(date), 0)

\* eachWeekOfInterval({start, end}): the week starts from startOfWeek(start) to
\* startOfWeek(end), seven days apart
eachWeekOfInterval(start, end) ==
    LET first == DayOf(startOfWeek(start))
        last == DayOf(startOfWeek(end))
        n == IF last < first THEN 0 ELSE (last - first) \div 7 + 1
    IN [i \in 1 .. n |-> Instant(first + 7 * (i - 1), 0)]

-----------------------------------------------------------------------------
(* RedcapApiService: the normaliser *)

Null == [k |-> "null", s |-> ""]
Str(s) == [k |-> "string", s |-> s]
Undef == [k |-> "undefined", s |-> ""]

\* the age text of a raw record: undefined, or a string of characters
NoChars == [k |-> "undefined", s |-> <<>>]
Chars(chars) == [k |-> "string", s |-> chars]

GENE_MAPPINGS ==
    [code \in {"1", "2", "3", "4", "5", "6", "7", "8", "9", "10", "11", "12", "13", "14",
               "15", "16", "17", "18", "19", "23"} |->
        CASE code = "1" -> "KIF1A" [] code = "2" -> "PHIP" [] code = "3" -> "PPP2R5D"
          [] code = "4" -> "MAPK8IP3" [] code = "5" -> "CTNNB1" [] code = "6" -> "PACS2"
          [] code = "7" -> "CACNA1A" [] code = "8" -> "TNPO2" [] code = "9" -> "DHPS"
          [] code = "10" -> "HNRNPUL2" [] code = "11" -> "KIF1C" [] code = "12" -> "TKT"
          [] code = "13" -> "SLC1A4" [] code = "14" -> "CACNA1G" [] code = "15" -> "CDC42BPB"
          [] code = "16" -> "SLCGA1" [] code = "17" -> "GPT2" [] code = "18" -> "TUBB4A"
          [] code = "19" -> "MEF2C" [] code = "23" -> "KCNQ3"]

\* the age group of a raw current_age_yr
ageGroupExclusiveEdges(raw) ==
    IF raw = Chars(<<>>) THEN "na"
    ELSE LET age == IF raw.k = "string" THEN parseInt(raw.s) ELSE NaN
         IN IF IsNum(age) /\ age.v < 6 THEN "0-6"
            ELSE IF IsNum(age) /\ age.v < 17 THEN "7-17"
            ELSE IF IsNum(age) /\ age.v < 65 THEN "18-65"
            ELSE "65+"

ageGroup(raw) ==
    IF raw = Chars(<<>>) THEN "na"
    ELSE LET age == IF raw.k = "string" THEN parseInt(raw.s) ELSE NaN
         IN IF IsNum(age) /\ age.v <= 6 THEN "0-6"
            ELSE IF IsNum(age) /\ age.v <= 17 THEN "7-17"
            ELSE IF IsNum(age) /\ age.v <= 65 THEN "18-65"
            ELSE "65+"

\* the race___N flags are tested in this order, each set flag overwriting the race
RaceOrder == <<1, 2, 3, 4, 5, 6, 99>>
RaceLabel(n) ==
    CASE n = 1 -> "American Indian or Alaksa Native"
      [] n = 2 -> "Asian"
      [] n = 3 -> "Native Hawaiian or Pacific Islander"
      [] n = 4 -> "Black or African American"
      [] n = 5 -> "White or Caucasian"
      [] n = 6 -> "Others"
      [] n = 99 -> "Unknown"

RECURSIVE raceAfter(_, _, _)
raceAfter(flags, k, race) ==
    IF k > Len(RaceOrder) THEN race
    ELSE raceAfter(flags, k + 1,
                   IF flags[RaceOrder[k]] = Str("1") THEN RaceLabel(RaceOrder[k]) ELSE race)

raceGroup(flags) == raceAfter(flags, 1, "Unknown")

ethnicityGroup(raw) ==
    IF raw = Str("99") THEN "Unknown"
    ELSE IF raw = Str("0") THEN "Not Hispanic or Latino"
    ELSE IF raw = Str("1") THEN "Hispanic or Latino"
    ELSE "Unknown"

\* record.gene || '' and then GENE_MAPPINGS[geneValue] || geneValue
geneNameOrUnknown(raw) ==
    LET geneValue == IF raw.k = "string" THEN raw.s ELSE ""
    IN IF geneValue \in DOMAIN GENE_MAPPINGS THEN GENE_MAPPINGS[geneValue] ELSE "Unknown"

geneName(raw) ==
    LET geneValue == IF raw.k = "string" THEN raw.s ELSE ""
    IN IF geneValue \in DOMAIN GENE_MAPPINGS THEN GENE_MAPPINGS[geneValue] ELSE geneValue

\* the normalised record of one raw record
processRecordBlankCodesUnknown(record) ==
    [record_id |-> record.record_id,
     age |-> ageGroup(record.current_age_yr),
     race |-> raceGroup(record.race),
     ethnicity |-> ethnicityGroup(record.ethnicity),
     consent_location |->
        IF record.consent_bch = Str("1") THEN "Boston"
        ELSE IF record.consent_bch \in {Str(""), Undef} THEN "Unknown" ELSE "Others",
     location_country |->
        IF record.location_country = Str("1") THEN "United States"
        ELSE IF record.location_country \in {Str(""), Undef} THEN "Unknown" ELSE "Others",
     gene |-> geneName(record.gene),
     consent_date |-> record.consent_bch_date,
     survey_completion_date |-> EmptyText]

processRecord(record) ==
    [record_id |-> record.record_id,
     age |-> ageGroup(record.current_age_yr),
     race |-> raceGroup(record.race),
     ethnicity |-> ethnicityGroup(record.ethnicity),
     consent_location |-> IF record.consent_bch = Str("1") THEN "Boston" ELSE "Others",
     location_country |->
        IF record.location_country = Str("1") THEN "United States" ELSE "Others",
     gene |-> geneName(record.gene),
     consent_date |-> record.consent_bch_date,
     survey_completion_date |-> EmptyText]

processParticipantData(raws) == [i \in 1 .. Len(raws) |-> processRecord(raws[i])]

-----------------------------------------------------------------------------
(* RecruitmentDashboard: the cumulative series and its projection *)

\* Array.from({ length: 12 }, ...): the number of anchor months
AnchorMonths == 12

\* data filtered by the selected gene
filteredDataKeepingAll(d, gene) == d

filteredData(d, gene) ==
    IF gene = "ALL" THEN d ELSE SelectSeq(d, LAMBDA record : record.gene = gene)

\* new Date(intervalStart.getFullYear(), intervalStart.getMonth() + 1, 0)
intervalEnd(intervalStart) ==
    JsDate(getFullYear(intervalStart), getMonth(intervalStart) + 1, 0, 0)

\* the cumulative total of one anchor month
monthTotalThisMonthOnly(fd, dateField, intervalStart) ==
    LET end == intervalEnd(intervalStart)
        previousEnd == intervalEnd(subMonths(intervalStart, 1))
    IN Cardinality({j \in 1 .. Len(fd) :
           /\ IsNonEmptyString(fd[j][dateField])
           /\ DateLeq(parseISO(fd[j][dateField]), end)
           /\ DateGt(parseISO(fd[j][dateField]), previousEnd)})

monthTotal(fd, dateField, intervalStart) ==
    LET end == intervalEnd(intervalStart)
    IN Cardinality({j \in 1 .. Len(fd) :
           /\ IsNonEmptyString(fd[j][dateField])
           /\ DateLeq(parseISO(fd[j][dateField]), end)})

isCurrentOrPast(intervalStart, today) ==
    \/ getFullYear(intervalStart) < getFullYear(today)
    \/ /\ getFullYear(intervalStart) = getFullYear(today)
       /\ getMonth(intervalStart) <= getMonth(today)

\* format(date, 'MMM yyyy'): the month and the year
formatMonth(date) == <<getMonth(date), getFullYear(date)>>

\* the point of one anchor month
anchorPointZeroFilled(intervalStart, total, today) ==
    [date |-> formatMonth(intervalStart),
     timestamp |-> intervalStart.t,
     total |-> IF isCurrentOrPast(intervalStart, today) THEN Num(total) ELSE Undefined,
     category |-> "Total",
     projected |-> Num(0),
     trendProjected |-> Num(0),
     upperBound |-> Num(0),
     lowerBound |-> Num(0)]

anchorPoint(intervalStart, total, today) ==
    LET past == isCurrentOrPast(intervalStart, today)
    IN [date |-> formatMonth(intervalStart),
        timestamp |-> intervalStart.t,
        total |-> IF past THEN Num(total) ELSE Undefined,
        category |-> "Total",
        projected |-> IF past THEN Undefined ELSE Num(0),
        trendProjected |-> IF past THEN Undefined ELSE Num(0),
        upperBound |-> IF past THEN Undefined ELSE Num(0),
        lowerBound |-> IF past THEN Undefined ELSE Num(0)]

\* the 12 anchors, oldest first, and their points
intervals(today) == [i \in 1 .. AnchorMonths |-> subMonths(today, AnchorMonths - i)]

anchorPoints(d, gene, dateField, today) ==
    LET months == intervals(today)
        fd == filteredData(d, gene)
    IN [i \in 1 .. AnchorMonths |->
          anchorPoint(months[i], monthTotal(fd, dateField, months[i]), today)]

\* month-over-month growth of the points
monthlyGrowths(points) ==
    [i \in 1 .. Len(points) - 1 |-> OrZero(points[i + 1].total) - OrZero(points[i].total)]

\* avgGrowth as the exact fraction num / den
avgGrowthOverPoints(growths) ==
    [num |-> SumSeq(growths), den |-> Len(growths) + 1]

avgGrowth(growths) ==
    IF Len(growths) > 0 THEN [num |-> SumSeq(growths), den |-> Len(growths)]
    ELSE [num |-> 0, den |-> 1]

\* The effect on [data, selectedTimestamp]: the average of the month-over-month
\* growths of the monthly counts of all loaded records, or the value held before
\* when the effect returns early.
averageMonthlyGrowthEffect(previous, d, dateField, today) ==
    IF dateField \in {"", "ALL"} \/ Len(d) = 0 THEN previous
    ELSE LET months == intervals(today)
             monthlyCounts == [i \in 1 .. AnchorMonths |-> monthTotal(d, dateField, months[i])]
             growths == [i \in 1 .. AnchorMonths - 1 |->
                           monthlyCounts[i + 1] - monthlyCounts[i]]
         IN IF Len(growths) > 0 THEN [num |-> SumSeq(growths), den |-> Len(growths)]
            ELSE previous

\* stdDev as the exact value sqrt(rad) / den: the population variance of the
\* growths is (n * sum of squares - (sum)^2) / n^2
stdDev(growths) ==
    IF Len(growths) > 0
    THEN [rad |-> Len(growths) * SumSeq([i \in DOMAIN growths |-> growths[i] * growths[i]])
                    - SumSeq(growths) * SumSeq(growths),
          den |-> Len(growths)]
    ELSE [rad |-> 0, den |-> 1]

\* monthlyTarget ? parseInt(monthlyTarget) : avgGrowth, as a fraction or NaN
trendRate(override, growths) ==
    IF override # <<>>
    THEN IF IsNum(parseInt(override))
         THEN [nan |-> FALSE, num |-> parseInt(override).v, den |-> 1]
         ELSE [nan |-> TRUE, num |-> 0, den |-> 1]
    ELSE [nan |-> FALSE, num |-> avgGrowth(growths).num, den |-> avgGrowth(growths).den]

\* Math.round of the fraction num / den, den > 0
RoundFrac(num, den) == (2 * num + den) \div (2 * den)

\* Math.round(trendProjected + sign * confidenceMargin) where trendProjected is
\* lastActual + rate * i and confidenceMargin is stdDev * Math.sqrt(i) * 2, that is
\* sqrt(4 * i * rad) / sd.den; over the denominator 2 * rate.den * sd.den the
\* rounded value is floor((a + sign * sqrt(q)) / dd).
roundedBound(lastActual, rate, sd, i, upper) ==
    LET dd == 2 * rate.den * sd.den
        a == 2 * sd.den * (lastActual * rate.den + rate.num * i) + rate.den * sd.den
        q == 16 * rate.den * rate.den * i * sd.rad
    IN IF upper THEN (a + FloorSqrt(q)) \div dd ELSE (a - CeilSqrt(q)) \div dd

\* currentProjected after i additions of targetRate = (targetTotal - lastActual) /
\* monthsToTarget, as the numerator of a fraction over monthsToTarget
currentProjectedTowardsCount(i, lastActual, targetTotal, mtt) ==
    lastActual * mtt + i * targetTotal

RECURSIVE currentProjected(_, _, _, _)
currentProjected(i, lastActual, targetTotal, mtt) ==
    IF i = 0 THEN lastActual * mtt
    ELSE currentProjected(i - 1, lastActual, targetTotal, mtt) + (targetTotal - lastActual)

\* the point pushed for the i-th projection month (i = index + 1)
projectionPoint(month, i, lastActual, targetTotal, mtt, rate, sd) ==
    [date |-> formatMonth(month),
     timestamp |-> month.t,
     total |-> Undefined,
     projected |-> IF IsNum(targetTotal)
                   THEN Num(RoundFrac(currentProjected(i, lastActual, targetTotal.v, mtt),
                                     mtt))
                   ELSE NaN,
     trendProjected |-> IF rate.nan THEN NaN
                        ELSE Num(RoundFrac(lastActual * rate.den + rate.num * i, rate.den)),
     upperBound |-> IF rate.nan THEN NaN
                    ELSE Num(roundedBound(lastActual, rate, sd, i, TRUE)),
     lowerBound |-> IF rate.nan THEN NaN
                    ELSE MathMax(lastActual, Num(roundedBound(lastActual, rate, sd, i, FALSE))),
     category |-> "Total"]

\* differenceInMonths(target, now) - 1
monthsToTargetWithoutMargin(tDate, today) == differenceInMonths(parseISO(tDate), today)

monthsToTarget(tDate, today) ==
    LET diff == differenceInMonths(parseISO(tDate), today)
    IN IF IsNum(diff) THEN Num(diff.v - 1) ELSE NaN

\* the points appended when monthsToTarget > 0
projectionPoints(points, tDate, tNumber, override, today) ==
    LET mtt == monthsToTarget(tDate, today)
        lastActual == OrZero(points[Len(points)].total)
        growths == monthlyGrowths(points)
        all == [i \in 1 .. (IF IsNum(mtt) /\ mtt.v > 0 THEN mtt.v ELSE 0) |->
                  projectionPoint(addMonths(today, i), i, lastActual, parseInt(tNumber),
                                  mtt.v, trendRate(override, growths), stdDev(growths))]
    IN SelectSeq(all, LAMBDA p : p.timestamp > today.t)

processCumulativeData(d, gene, dateField, tDate, tNumber, override, today) ==
    IF dateField = "" \/ dateField = "ALL" THEN <<>>
    ELSE LET points == anchorPoints(d, gene, dateField, today)
         IN points \o projectionPoints(points, tDate, tNumber, override, today)

-----------------------------------------------------------------------------
(* RecruitmentDashboard: the distribution chart *)

EmptyMappings == [x \in {} |-> ""]

\* availableFields.groups.find(f => f.redcapField === group2Field)?.valueMappings
group2Mappings(cfg, group2Field) ==
    LET hits == SelectSeq(cfg.groups, LAMBDA f : f.redcapField = group2Field)
    IN IF hits = <<>> THEN EmptyMappings ELSE Head(hits).valueMappings

getMappedValue(originalValue, mappings) ==
    IF originalValue \in DOMAIN mappings THEN mappings[originalValue] ELSE originalValue

\* value2 of a record
value2(record, group2Field, mappings) ==
    IF group2Field = "ALL" THEN "Total" ELSE getMappedValue(record[group2Field], mappings)

\* the distinct values of a sequence in the order of their first occurrence
RECURSIVE FirstSeen(_)
FirstSeen(s) ==
    IF s = <<>> THEN <<>>
    ELSE LET init == FirstSeen(SubSeq(s, 1, Len(s) - 1))
             last == s[Len(s)]
         IN IF \E i \in DOMAIN init : init[i] = last THEN init ELSE Append(init, last)

getUniqueMappedCategories(fd, field, mappings) ==
    IF field = "ALL" THEN <<"Total">>
    ELSE FirstSeen([j \in 1 .. Len(fd) |-> getMappedValue(fd[j][field], mappings)])

\* Property names that are canonical array indices, with their values:
\* Object.entries lists these first, in increasing numeric order, and then the
\* other names in the order they were added.
IntegerKeys == {"7", "99"}
IntegerKeyValue(key) == IF key = "7" THEN 7 ELSE 99

RECURSIVE SortedIntegerKeys(_)
SortedIntegerKeys(keys) ==
    IF keys = {} THEN <<>>
    ELSE LET least == CHOOSE a \in keys :
                          \A b \in keys : IntegerKeyValue(a) <= IntegerKeyValue(b)
         IN <<least>> \o SortedIntegerKeys(keys \ {least})

objectKeys(added) ==
    SortedIntegerKeys({added[i] : i \in DOMAIN added} \cap IntegerKeys)
      \o SelectSeq(added, LAMBDA key : key \notin IntegerKeys)

\* the snapshot returned when the time field is 'ALL'
snapshotData(fd, group2Field, mappings) ==
    IF group2Field = "ALL" THEN <<[name |-> "Total", value |-> Len(fd)]>>
    ELSE LET keys == objectKeys(FirstSeen([j \in 1 .. Len(fd) |->
                                              value2(fd[j], group2Field, mappings)]))
         IN [i \in 1 .. Len(keys) |->
               [name |-> keys[i],
                value |-> Cardinality({j \in 1 .. Len(fd) :
                              value2(fd[j], group2Field, mappings) = keys[i]})]]

\* subMonths(now, 3): the length of the weekly window
WindowMonths == 3

\* the week starts of the window
weekIntervals(today) == eachWeekOfInterval(subMonths(today, WindowMonths), today)

\* the count of one category at one week start
weekCountNotAtOrBefore(fd, dateField, group2Field, mappings, cat2, interval) ==
    Cardinality({j \in 1 .. Len(fd) :
        /\ IsNonEmptyString(fd[j][dateField])
        /\ value2(fd[j], group2Field, mappings) = cat2
        /\ ~DateLeq(parseISO(fd[j][dateField]), interval)})

\* the count written as a per-week delta: the records dated within the seven
\* days after the week start
weekCountWithinWeek(fd, dateField, group2Field, mappings, cat2, interval) ==
    Cardinality({j \in 1 .. Len(fd) :
        /\ IsNonEmptyString(fd[j][dateField])
        /\ value2(fd[j], group2Field, mappings) = cat2
        /\ isAfter(parseISO(fd[j][dateField]), interval)
        /\ parseISO(fd[j][dateField]).t <= interval.t + 7 * 24})

weekCountFromBoundary(fd, dateField, group2Field, mappings, cat2, interval) ==
    Cardinality({j \in 1 .. Len(fd) :
        /\ IsNonEmptyString(fd[j][dateField])
        /\ value2(fd[j], group2Field, mappings) = cat2
        /\ DateLeq(interval, parseISO(fd[j][dateField]))})

weekCount(fd, dateField, group2Field, mappings, cat2, interval) ==
    Cardinality({j \in 1 .. Len(fd) :
        /\ IsNonEmptyString(fd[j][dateField])
        /\ value2(fd[j], group2Field, mappings) = cat2
        /\ isAfter(parseISO(fd[j][dateField]), interval)})

\* format(interval, 'MMM dd'): the month and the day of the month
formatDay(date) == <<getMonth(date), getDate(date)>>

processTimeSeriesData(d, cfg, gene, group2Field, dateField, today) ==
    IF dateField = "" THEN <<>>
    ELSE LET fd == filteredData(d, gene)
             mappings == group2Mappings(cfg, group2Field)
         IN IF dateField = "ALL" THEN snapshotData(fd, group2Field, mappings)
            ELSE LET cats == getUniqueMappedCategories(fd, group2Field, mappings)
                     weeks == weekIntervals(today)
                 IN [i \in 1 .. Len(weeks) |->
                       [name |-> formatDay(weeks[i]),
                        categories |-> cats,
                        count |-> [c \in {cats[n] : n \in DOMAIN cats} |->
                                     weekCount(fd, dateField, group2Field, mappings, c,
                                               weeks[i])]]]

-----------------------------------------------------------------------------
(* RecruitmentDashboard: state, rendering and the handlers of the controls *)

\* a normalised record (ParticipantData)
ParticipantData(id, age, gene, location, country, consentDate) ==
    [record_id |-> id, age |-> age, race |-> "Unknown", ethnicity |-> "Unknown",
     consent_location |-> location, location_country |-> country, gene |-> gene,
     consent_date |-> consentDate, survey_completion_date |-> EmptyText]

\* DEFAULT_CONFIG of App: its fields, and no batchNumber
DEFAULT_CONFIG ==
    [groups |-> <<
        [redcapField |-> "gene", displayName |-> "Gene", type |-> "group",
         valueMappings |-> EmptyMappings],
        [redcapField |-> "consent_location", displayName |-> "Consent Location",
         type |-> "group", valueMappings |-> EmptyMappings],
        [redcapField |-> "location_country", displayName |-> "Location",
         type |-> "group", valueMappings |-> EmptyMappings]>>,
     timestamps |-> <<
        [redcapField |-> "consent_date", displayName |-> "Consent Date",
         type |-> "timestamp", valueMappings |-> EmptyMappings],
        [redcapField |-> "survey_completion_date", displayName |-> "Survey Completion",
         type |-> "timestamp", valueMappings |-> EmptyMappings]>>,
     batchNumber |-> Undefined]

Range(s) == {s[i] : i \in DOMAIN s}
SeqsUpTo(S, n) == UNION {[1 .. k -> S] : k \in 0 .. n}

\* the keys of GROUP_FIELDS and the options of the two selects
groupOptions == {"ALL"} \cup {redcapConfig.groups[i].redcapField : i \in DOMAIN redcapConfig.groups}
timestampOptions ==
    {"ALL"} \cup {redcapConfig.timestamps[i].redcapField : i \in DOMAIN redcapConfig.timestamps}
uniqueGenes == {"ALL"} \cup {data[i].gene : i \in DOMAIN data}

\* the controls exist only below the early returns of the component
Shown == ~loading /\ error = Null

handleGeneChange ==
    /\ Shown
    /\ \E gene \in uniqueGenes : selectedGene' = gene
    /\ UNCHANGED <<now, averageMonthlyGrowth, data, selectedGroup, selectedTimestamp,
                   targetDate, targetNumber, monthlyTarget, loading, isLoading, error,
                   redcapConfig, svc, normVars, pageVars, cacheVars>>

handleGroupChange ==
    /\ Shown
    /\ \E group \in groupOptions : selectedGroup' = group
    /\ UNCHANGED <<now, averageMonthlyGrowth, data, selectedGene, selectedTimestamp,
                   targetDate, targetNumber, monthlyTarget, loading, isLoading, error,
                   redcapConfig, svc, normVars, pageVars, cacheVars>>

handleTimestampChange ==
    /\ Shown
    /\ \E field \in timestampOptions : selectedTimestamp' = field
    /\ averageMonthlyGrowth' =
          averageMonthlyGrowthEffect(averageMonthlyGrowth, data, selectedTimestamp', now)
    /\ UNCHANGED <<now, data, selectedGene, selectedGroup, targetDate, targetNumber,
                   monthlyTarget, loading, isLoading, error, redcapConfig, svc, normVars,
                   pageVars, cacheVars>>

\* Bounds of the model
MaxRecords == 2

\* the instants at which the dashboard is looked at: the last day of a month
\* (a Sunday) at noon, and a day in mid-January
NowSet == {JsDate(2024, 2, 31, 12), JsDate(2024, 0, 15, 9)}

\* what the date input can hold: nothing, or a date
TargetDateTexts == {EmptyText, IsoText(2024, 5, 1, 0), IsoText(2024, 7, 15, 0)}
\* what the number inputs can hold
TargetNumberTexts == {<<>>, <<"5">>, <<"1", "0">>}
MonthlyTargetTexts == {<<>>, <<"0">>, <<"2">>, <<"-", "1">>}

setTargetDate ==
    /\ Shown
    /\ \E text \in TargetDateTexts : targetDate' = text
    /\ UNCHANGED <<now, averageMonthlyGrowth, data, selectedGene, selectedGroup,
                   selectedTimestamp, targetNumber, monthlyTarget, loading, isLoading,
                   error, redcapConfig, svc, normVars, pageVars, cacheVars>>

setTargetNumber ==
    /\ Shown
    /\ \E text \in TargetNumberTexts : targetNumber' = text
    /\ UNCHANGED <<now, averageMonthlyGrowth, data, selectedGene, selectedGroup,
                   selectedTimestamp, targetDate, monthlyTarget, loading, isLoading, error,
                   redcapConfig, svc, normVars, pageVars, cacheVars>>

setMonthlyTarget ==
    /\ Shown
    /\ \E text \in MonthlyTargetTexts : monthlyTarget' = text
    /\ UNCHANGED <<now, averageMonthlyGrowth, data, selectedGene, selectedGroup,
                   selectedTimestamp, targetDate, targetNumber, loading, isLoading, error,
                   redcapConfig, svc, normVars, pageVars, cacheVars>>

\* the result slot of a processParticipantData call
NotReturned == [returned |-> FALSE, value |-> <<>>]
Returned(value) == [returned |-> TRUE, value |-> value]

\* no fetchRecruitmentData call is running
IdleService ==
    [pc |-> "idle", caller |-> "", batchSize |-> 0, batches |-> <<>>, next |-> 0,
     allData |-> <<>>, timer |-> "none", response |-> "", outcome |-> "",
     value |-> <<>>, error |-> Null]

\* useState<number>(0), as a fraction
NoGrowth == [num |-> 0, den |-> 1]

\* the growth held once the effects of a loaded dashboard have run
LoadedGrowth ==
    averageMonthlyGrowth = averageMonthlyGrowthEffect(NoGrowth, data, selectedTimestamp, now)

\* no configuration page is open and nothing is stored
NoConfigPage ==
    /\ appConfig = Null
    /\ pageConfig = Null
    /\ fieldsObjects = <<>>
    /\ savedConfig = Null

NoCache ==
    /\ cache = <<>>
    /\ cacheKey = Null

\* What the component body computes from the state at each render: nothing while
\* loading or on an error (the early returns), otherwise the two series.
chartData ==
    IF Shown
    THEN processTimeSeriesData(data, redcapConfig, selectedGene, selectedGroup,
                               selectedTimestamp, now)
    ELSE <<>>

cumulativeData ==
    IF Shown
    THEN processCumulativeData(data, selectedGene, selectedTimestamp, targetDate,
                               targetNumber, monthlyTarget, now)
    ELSE <<>>

-----------------------------------------------------------------------------
(* The cumulative chart: a loaded dashboard and its controls *)

\* consent dates of the loaded records: none, unparseable, the last day of April
\* 2023 with and without a time of day, the end of February 2024, a later month
CumDates ==
    {EmptyText, OtherText, IsoText(2023, 4, 30, 0), IsoText(2023, 4, 30, 10),
     IsoText(2024, 2, 29, 0), IsoText(2024, 5, 2, 0)}

CumRecords ==
    {ParticipantData(Chars(<<"N", "H", "S", "1">>), "7-17", "KIF1A", "Boston", "United States", d) :
        d \in CumDates}
    \cup {ParticipantData(Chars(<<"N", "H", "S", "2">>), "18-65", "PHIP", "Others", "Others", d) :
        d \in {IsoText(2023, 4, 30, 10), IsoText(2024, 2, 29, 0)}}

InitCum ==
    /\ now \in NowSet
    /\ data \in SeqsUpTo(CumRecords, MaxRecords)
    /\ selectedGene = "ALL"
    /\ selectedGroup = "age"
    /\ selectedTimestamp = "consent_date"
    /\ targetDate = IsoText(2024, 7, 15, 0)
    /\ targetNumber = <<"1", "0">>
    /\ monthlyTarget = <<>>
    /\ loading = FALSE
    /\ isLoading = FALSE
    /\ error = Null
    /\ redcapConfig = DEFAULT_CONFIG
    /\ svc = IdleService
    /\ records = <<>>
    /\ participants = NotReturned
    /\ LoadedGrowth
    /\ NoConfigPage
    /\ NoCache

NextCum ==
    \/ handleGeneChange
    \/ setTargetDate
    \/ setTargetNumber
    \/ setMonthlyTarget

SpecCum == InitCum /\ [][NextCum]_vars

-----------------------------------------------------------------------------
(* The normaliser applied to a batch of raw records *)

MaxBatch == 2

RaceCodes == {1, 2, 3, 4, 5, 6, 99}
FlagsOf(set) == [n \in RaceCodes |-> IF n \in set THEN Str("1") ELSE Str("0")]

RawRecord(id, age, consent, country, gene, consentDate, race, ethnicity) ==
    [record_id |-> id, current_age_yr |-> age, consent_bch |-> consent,
     location_country |-> country, gene |-> gene, consent_bch_date |-> consentDate,
     race |-> race, ethnicity |-> ethnicity]

\* raw ages: missing, empty, not a number, and numbers around the group edges
RawAges ==
    {NoChars, Chars(<<>>), Chars(<<"a">>), Chars(<<"-", "1">>),
     Chars(<<"6">>), Chars(<<"7">>), Chars(<<"1", "7">>), Chars(<<"1", "8">>),
     Chars(<<"6", "5">>), Chars(<<"6", "6">>), Chars(<<"6", ".", "5">>),
     Chars(<<" ", "7">>)}
RawIds == {Chars(<<"N", "H", "S", "1">>), NoChars}
RawCodes == {Str("1"), Str("2"), Str(""), Undef}
RawGenes == {Str("1"), Str("7"), Str("99"), Str(""), Undef}
RawRaces == {FlagsOf({}), FlagsOf({2}), FlagsOf({2, 5}), FlagsOf({1, 99}), FlagsOf({6})}

\* a row that also carries the event name column of a longitudinal project
WithEventName(raw) == raw @@ [redcap_event_name |-> Str("baseline_arm_1")]

RawRecords ==
    {RawRecord(id, age, Str("1"), Str("1"), Str("1"), IsoText(2024, 3, 15, 0),
               FlagsOf({5}), Str("0")) : id \in RawIds, age \in RawAges}
    \cup {RawRecord(Chars(<<"N", "H", "S", "2">>), Chars(<<"1", "0">>), code, Str("1"), Str("2"),
                    EmptyText, FlagsOf({5}), code) : code \in RawCodes}
    \cup {RawRecord(Chars(<<"N", "H", "S", "3">>), Chars(<<"1", "0">>), Str("2"), code, Str("2"),
                    EmptyText, FlagsOf({5}), Str("99")) : code \in RawCodes}
    \cup {RawRecord(Chars(<<"N", "H", "S", "4">>), Chars(<<"4", "0">>), Str("1"), Str("1"), gene,
                    UndefinedText, FlagsOf({5}), Str("1")) : gene \in RawGenes}
    \cup {RawRecord(Chars(<<"N", "H", "S", "5">>), Chars(<<"7", "0">>), Str("1"), Str("1"), Str("1"),
                    OtherText, race, Str("0")) : race \in RawRaces}
    \cup {WithEventName(RawRecord(Chars(<<"N", "H", "S", "6">>), Chars(<<"7">>), Str("1"),
                                  Str("1"), Str("1"), IsoText(2024, 3, 15, 0), FlagsOf({5}),
                                  Str("0")))}

IdleDashboard ==
    /\ now = JsDate(2024, 2, 31, 12)
    /\ data = <<>>
    /\ selectedGene = "ALL"
    /\ selectedGroup = "age"
    /\ selectedTimestamp = ""
    /\ targetDate = IsoText(2024, 7, 15, 0)
    /\ targetNumber = <<"1", "0">>
    /\ monthlyTarget = <<>>
    /\ loading = TRUE
    /\ isLoading = FALSE
    /\ error = Null
    /\ averageMonthlyGrowth = NoGrowth

InitNorm ==
    /\ IdleDashboard
    /\ redcapConfig = DEFAULT_CONFIG
    /\ svc = IdleService
    /\ records \in SeqsUpTo(RawRecords, MaxBatch)
    /\ participants = NotReturned
    /\ NoConfigPage
    /\ NoCache

\* a call of processParticipantData(records)
Normalize ==
    /\ ~participants.returned
    /\ participants' = Returned(processParticipantData(records))
    /\ UNCHANGED <<dashVars, svc, records, pageVars, cacheVars>>

NextNorm == Normalize

SpecNorm == InitNorm /\ [][NextNorm]_vars

-----------------------------------------------------------------------------
(* RedcapApiService.fetchRecruitmentData and the dashboard's two callers *)

DEFAULT_BATCH_SIZE == 100

MaxProject == 3

\* config.batchNumber || this.DEFAULT_BATCH_SIZE
batchSizeOf(config) ==
    IF IsNum(config.batchNumber) /\ config.batchNumber.v # 0
    THEN config.batchNumber.v
    ELSE DEFAULT_BATCH_SIZE

\* id.includes(pattern)
includes(id, pattern) ==
    \E i \in 1 .. Len(id) + 1 - Len(pattern) :
       SubSeq(id, i, i + Len(pattern) - 1) = pattern

\* allRecordIds.filter(id => id.includes('NHS'))
nhsRecordIds(allRecordIds) ==
    SelectSeq(allRecordIds, LAMBDA id : includes(id, <<"N", "H", "S">>))

\* the for loop, written as one that stops before a last, shorter batch
batchesOfWholeOnly(ids, size) ==
    [k \in 1 .. (Len(ids) \div size) |->
        SubSeq(ids, (k - 1) * size + 1, k * size)]

\* the for loop that slices the ids into batches
batchesOf(ids, size) ==
    [k \in 1 .. ((Len(ids) + size - 1) \div size) |->
        SubSeq(ids, (k - 1) * size + 1, Min(k * size, Len(ids)))]

\* the project on the server: the record ids it lists and the rows it returns
ProjectIds ==
    {<<"N", "H", "S", "1">>, <<"N", "H", "S", "2">>, <<"A", "N", "H", "S">>,
     <<"X", "1">>, <<"N", "H">>}
ProjectRecord(id) ==
    RawRecord(Chars(id), Chars(<<"4", "0">>), Str("1"), Str("1"),
              IF id[Len(id)] = "1" THEN Str("1") ELSE Str("2"),
              IsoText(2024, 1, 10, 0), FlagsOf({5}), Str("0"))
Projects ==
    {[i \in DOMAIN ids |-> ProjectRecord(ids[i])] :
        ids \in {p \in SeqsUpTo(ProjectIds, MaxProject) :
                    \A i, j \in DOMAIN p : p[i] = p[j] => i = j}}
allRecordIdsOf(project) == [i \in DOMAIN project |-> project[i].record_id.s]
rowsOf(project, recordIds) ==
    SelectSeq(project, LAMBDA row : row.record_id.s \in Range(recordIds))

\* the errors a request can end with
Responses == {"ok", "http", "network", "timeout"}
errorOf(response, pc) ==
    CASE response = "http" /\ pc = "ids" -> Str("Failed to fetch record IDs")
      [] response = "http" /\ pc = "batch" -> Str("Failed to fetch batch")
      [] response = "network" -> Str("Failed to fetch")
      [] response = "timeout" -> Str("The operation was aborted")

\* fetchWithTimeout, written without its two clearTimeout calls
timerLeftRunning(response) == IF response = "timeout" THEN "fired" ELSE "armed"

\* fetchWithTimeout: the timer after the call has settled
timerAfter(response) == IF response = "timeout" THEN "fired" ELSE "cleared"

\* the catch block of fetchRecruitmentData, written as one that returns what it has
fetchFailedReturningPartial(allData, err) ==
    [outcome |-> "resolved", value |-> allData, error |-> Null]

\* the catch block of fetchRecruitmentData: throw error
fetchFailed(allData, err) == [outcome |-> "rejected", value |-> <<>>, error |-> err]

\* return allData
fetchReturned(allData) == [outcome |-> "resolved", value |-> allData, error |-> Null]

BatchNumbers == {Undefined, Num(0), Num(1), Num(2)}

InitFetch ==
    /\ IdleDashboard
    /\ \E b \in BatchNumbers : redcapConfig = [DEFAULT_CONFIG EXCEPT !.batchNumber = b]
    /\ svc = IdleService
    /\ records \in Projects
    /\ participants = NotReturned
    /\ NoConfigPage
    /\ NoCache

\* new RedcapApiService(redcapConfig) and the call of fetchRecruitmentData up to
\* its first await
startFetch(caller) ==
    [IdleService EXCEPT !.pc = "ids", !.caller = caller,
                        !.batchSize = batchSizeOf(redcapConfig), !.timer = "armed"]

\* the effect run at mount: fetchData up to its await
MountFetch ==
    /\ loading
    /\ svc.pc = "idle"
    /\ isLoading' = TRUE
    /\ error' = Null
    /\ svc' = startFetch("mount")
    /\ UNCHANGED <<now, averageMonthlyGrowth, data, selectedGene, selectedGroup,
                   selectedTimestamp, targetDate, targetNumber, monthlyTarget, loading,
                   redcapConfig, normVars, pageVars, cacheVars>>

\* the Force Refresh button, written without disabled={isLoading}
handleForceRefreshNeverDisabled ==
    /\ Shown
    /\ isLoading' = TRUE
    /\ error' = Null
    /\ svc' = startFetch("refresh")
    /\ UNCHANGED <<now, averageMonthlyGrowth, data, selectedGene, selectedGroup,
                   selectedTimestamp, targetDate, targetNumber, monthlyTarget, loading,
                   redcapConfig, normVars, pageVars, cacheVars>>

\* the Force Refresh button, rendered when the dashboard is shown and enabled
\* when isLoading is false: handleForceRefresh up to its await
handleForceRefresh ==
    /\ Shown
    /\ ~isLoading
    /\ isLoading' = TRUE
    /\ error' = Null
    /\ svc' = startFetch("refresh")
    /\ UNCHANGED <<now, averageMonthlyGrowth, data, selectedGene, selectedGroup,
                   selectedTimestamp, targetDate, targetNumber, monthlyTarget, loading,
                   redcapConfig, normVars, pageVars, cacheVars>>

\* the caller's continuation once fetchRecruitmentData has settled with result:
\* try/catch/finally of fetchData (mount) or of handleForceRefresh
Settled(caller, result) ==
    /\ IF result.outcome = "resolved"
       THEN /\ data' = result.value
            /\ selectedTimestamp' =
                 IF caller = "mount" /\ selectedTimestamp = ""
                 THEN redcapConfig.timestamps[1].redcapField
                 ELSE selectedTimestamp
            /\ error' = error
            /\ averageMonthlyGrowth' =
                 averageMonthlyGrowthEffect(averageMonthlyGrowth, data', selectedTimestamp',
                                            now)
       ELSE /\ error' = result.error
            /\ UNCHANGED <<data, selectedTimestamp, averageMonthlyGrowth>>
    /\ isLoading' = FALSE
    /\ loading' = IF caller = "mount" THEN FALSE ELSE loading
    /\ UNCHANGED <<now, selectedGene, selectedGroup, targetDate, targetNumber,
                   monthlyTarget, redcapConfig, normVars, pageVars, cacheVars>>

settledService(response, result) ==
    [svc EXCEPT !.pc = "settled", !.timer = timerAfter(response), !.response = response,
                !.outcome = result.outcome, !.value = result.value,
                !.error = result.error]

\* the request of fetchAllRecordIds ends
RecordIdsArrive ==
    /\ svc.pc = "ids"
    /\ LET batches == batchesOf(nhsRecordIds(allRecordIdsOf(records)), svc.batchSize)
       IN IF batches = <<>>
          THEN /\ svc' = settledService("ok", fetchReturned(<<>>))
               /\ Settled(svc.caller, fetchReturned(<<>>))
          ELSE /\ svc' = [svc EXCEPT !.pc = "batch", !.batches = batches, !.next = 1,
                                     !.timer = "armed", !.response = "ok"]
               /\ UNCHANGED dashVars
               /\ UNCHANGED <<normVars, pageVars, cacheVars>>

\* a request fails: a non-ok status, a network error, or the timer fires and aborts
RequestFails ==
    /\ svc.pc \in {"ids", "batch"}
    /\ \E response \in Responses \ {"ok"} :
          LET result == fetchFailed(svc.allData, errorOf(response, svc.pc))
          IN /\ svc' = settledService(response, result)
             /\ Settled(svc.caller, result)

\* the request of fetchBatch for the next batch ends with its rows
BatchArrives ==
    /\ svc.pc = "batch"
    /\ LET batchData == processParticipantData(rowsOf(records, svc.batches[svc.next]))
           allData == svc.allData \o batchData
       IN IF svc.next = Len(svc.batches)
          THEN /\ svc' = [settledService("ok", fetchReturned(allData))
                            EXCEPT !.allData = allData]
               /\ Settled(svc.caller, fetchReturned(allData))
          ELSE /\ svc' = [svc EXCEPT !.allData = allData, !.next = svc.next + 1,
                                     !.timer = "armed", !.response = "ok"]
               /\ UNCHANGED dashVars
               /\ UNCHANGED <<normVars, pageVars, cacheVars>>

NextFetch ==
    \/ MountFetch
    \/ handleForceRefresh
    \/ RecordIdsArrive
    \/ RequestFails
    \/ BatchArrives
    \/ handleGeneChange

SpecFetch == InitFetch /\ [][NextFetch]_vars

\* every request ends: with a response, with a network error, or at the latest
\* when the timer of fetchWithTimeout aborts it
RequestEnds == RecordIdsArrive \/ RequestFails \/ BatchArrives

SpecFetchFair == SpecFetch /\ WF_vars(RequestEnds)

-----------------------------------------------------------------------------
(* The distribution chart: a loaded dashboard and its three selects *)

\* consent dates around the week starts: Sunday 2024-03-31 at midnight and at
\* 10:00, the Sunday before, Sunday 2023-10-15, a weekday, a date before every
\* window, no date, and a text that is no date
AggDates ==
    {EmptyText, OtherText, IsoText(2024, 3, 31, 0), IsoText(2024, 3, 31, 10),
     IsoText(2024, 3, 24, 0), IsoText(2023, 10, 15, 0), IsoText(2024, 1, 3, 0),
     IsoText(2023, 9, 1, 0)}
AggRecords ==
    {ParticipantData(Chars(<<"N", "H", "S", "1">>), "7-17", "KIF1A", "Boston",
                     "United States", d) : d \in AggDates}
    \cup {ParticipantData(Chars(<<"N", "H", "S", "2">>), "18-65", "99", "Others", "Others", d) :
            d \in {IsoText(2024, 3, 31, 0), IsoText(2024, 1, 3, 0)}}

\* a configuration whose group fields carry value mappings: one consent location
\* renamed, and the two countries shown under one label
MAPPED_CONFIG ==
    [DEFAULT_CONFIG EXCEPT
        !.groups[2].valueMappings = [x \in {"Boston"} |-> "BCH"],
        !.groups[3].valueMappings = [x \in {"United States", "Others"} |-> "World"]]

InitAgg ==
    /\ \/ now \in NowSet /\ redcapConfig = DEFAULT_CONFIG
       \/ now = JsDate(2024, 0, 15, 9) /\ redcapConfig = MAPPED_CONFIG
    /\ data \in SeqsUpTo(AggRecords, MaxRecords)
    /\ selectedGene = "ALL"
    /\ selectedGroup = "age"
    /\ selectedTimestamp = "consent_date"
    /\ targetDate = IsoText(2024, 7, 15, 0)
    /\ targetNumber = <<"1", "0">>
    /\ monthlyTarget = <<>>
    /\ loading = FALSE
    /\ isLoading = FALSE
    /\ error = Null
    /\ svc = IdleService
    /\ records = <<>>
    /\ participants = NotReturned
    /\ LoadedGrowth
    /\ NoConfigPage
    /\ NoCache

NextAgg == handleGeneChange \/ handleGroupChange \/ handleTimestampChange

SpecAgg == InitAgg /\ [][NextAgg]_vars

-----------------------------------------------------------------------------
(* The projection: a loaded dashboard with a record in every anchor month *)

\* the date text of the record of the month k months before today's month: its
\* first day, its 15th, its last day, or first and last day in turn
ScenarioShapes == {"first", "mid", "last", "mixed"}
ScenarioDate(today, k, shape) ==
    LET months == getFullYear(today) * 12 + getMonth(today) - k
        y == months \div 12
        m == months % 12
        day == CASE shape = "first" -> 1
                 [] shape = "mid" -> 15
                 [] shape = "last" -> DaysInMonth(y, m)
                 [] shape = "mixed" -> IF k % 2 = 0 THEN 1 ELSE DaysInMonth(y, m)
    IN IsoText(y, m + 1, day, 0)

\* one record in each of the 12 months ending at today's month, oldest or newest
\* record first
ScenarioRecords(today, shape, newestFirst) ==
    [j \in 1 .. AnchorMonths |->
        ParticipantData(Chars(<<"N", "H", "S", "1">>), "7-17", "KIF1A", "Boston",
                        "United States",
                        ScenarioDate(today, IF newestFirst THEN j - 1 ELSE AnchorMonths - j,
                                     shape))]

\* the record lists of the projection runs
ProjData(today) ==
    {ScenarioRecords(today, shape, order) : shape \in ScenarioShapes, order \in BOOLEAN}
    \cup {<<>>}
    \cup {<<ParticipantData(Chars(<<"N", "H", "S", "1">>), "7-17", "KIF1A", "Boston",
                            "United States", IsoText(2023, 11, 20, 0)),
            ParticipantData(Chars(<<"N", "H", "S", "2">>), "18-65", "PHIP", "Others",
                            "Others", d)>> : d \in {IsoText(2024, 1, 5, 0), EmptyText}}

\* target dates: also one in the past, and dates one month after each instant of NowSet
ProjTargetDates ==
    TargetDateTexts
    \cup {IsoText(2023, 12, 1, 0), IsoText(2024, 4, 30, 0), IsoText(2024, 2, 15, 0)}
ProjTargetNumbers == TargetNumberTexts \cup {<<"2", "0">>}
\* trend overrides: also a number with a fraction
ProjMonthlyTargets == MonthlyTargetTexts \cup {<<"2", ".", "5">>}

InitProj ==
    /\ now \in NowSet
    /\ data \in ProjData(now)
    /\ selectedGene = "ALL"
    /\ selectedGroup = "age"
    /\ selectedTimestamp = "consent_date"
    /\ targetDate \in ProjTargetDates
    /\ targetNumber \in ProjTargetNumbers
    /\ monthlyTarget \in ProjMonthlyTargets
    /\ loading = FALSE
    /\ isLoading = FALSE
    /\ error = Null
    /\ redcapConfig = DEFAULT_CONFIG
    /\ svc = IdleService
    /\ records = <<>>
    /\ participants = NotReturned
    /\ LoadedGrowth
    /\ NoConfigPage
    /\ NoCache

NextProj == handleGeneChange \/ setTargetDate \/ setTargetNumber \/ setMonthlyTarget

SpecProj == InitProj /\ [][NextProj]_vars

-----------------------------------------------------------------------------
(* The two series side by side: a loaded dashboard whose records have usable
   and unusable dates *)

\* consent dates of the loaded records: a missing field, the empty string, a
\* text that is no date, a day that does not exist, and dates inside and before
\* the weekly window
SeriesDates ==
    {UndefinedText, EmptyText, OtherText, IsoText(2024, 2, 30, 0), IsoText(2024, 3, 24, 0),
     IsoText(2024, 1, 8, 10), IsoText(2023, 9, 1, 0)}

\* three loaded records: two of one gene in different locations, one of another
SeriesData ==
    {<<ParticipantData(Chars(<<"N", "H", "S", "1">>), "7-17", "KIF1A", "Boston",
                       "United States", d1),
       ParticipantData(Chars(<<"N", "H", "S", "2">>), "18-65", "PHIP", "Others", "Others", d2),
       ParticipantData(Chars(<<"N", "H", "S", "3">>), "0-6", "KIF1A", "Others",
                       "United States", IsoText(2024, 1, 3, 0))>> :
        d1 \in SeriesDates, d2 \in SeriesDates}

InitSeries ==
    /\ now \in NowSet
    /\ data \in SeriesData
    /\ selectedGene = "ALL"
    /\ selectedGroup = "age"
    /\ selectedTimestamp = "consent_date"
    /\ targetDate = IsoText(2024, 7, 15, 0)
    /\ targetNumber = <<"1", "0">>
    /\ monthlyTarget = <<>>
    /\ loading = FALSE
    /\ isLoading = FALSE
    /\ error = Null
    /\ redcapConfig = DEFAULT_CONFIG
    /\ svc = IdleService
    /\ records = <<>>
    /\ participants = NotReturned
    /\ LoadedGrowth
    /\ NoConfigPage
    /\ NoCache

NextSeries == handleGeneChange \/ handleGroupChange \/ handleTimestampChange

SpecSeries == InitSeries /\ [][NextSeries]_vars

-----------------------------------------------------------------------------
(* App with the configuration route, and ConfigPage *)

\* a FieldMapping; valueMappings is "{}" for an empty object and "undefined" when
\* the property is absent
FieldMapping(field, name, type, mappings) ==
    [redcapField |-> field, displayName |-> name, type |-> type, valueMappings |-> mappings]

\* DEFAULT_CONFIG.fields of the App that routes to the configuration page
RoutedDefaultFields ==
    [groups |-> <<FieldMapping("gene", "Gene", "group", "{}"),
                  FieldMapping("consent_location", "Consent Location", "group", "{}"),
                  FieldMapping("age", "Age Group", "group", "{}"),
                  FieldMapping("is_international", "Is International", "group", "{}")>>,
     timestamps |-> <<FieldMapping("consent_date", "Consent Date", "timestamp", "undefined"),
                      FieldMapping("survey_completion_date", "Survey Completion", "timestamp",
                                   "undefined")>>]

\* DEFAULT_CONFIG.fields of the App without the route; "mapped" stands for the
\* non-empty valueMappings objects of its entries
SingleViewDefaultFields ==
    [groups |-> <<FieldMapping("gene", "Gene", "group", "{}"),
                  FieldMapping("consent_location", "Consent Location", "group", "{}"),
                  FieldMapping("age", "Age Group", "group", "mapped"),
                  FieldMapping("location_country", "Location", "group", "mapped"),
                  FieldMapping("consent_location", "Consent Location", "group", "mapped"),
                  FieldMapping("race", "Race", "group", "mapped"),
                  FieldMapping("ethnicity", "Ethnicity", "group", "mapped")>>,
     timestamps |-> <<FieldMapping("consent_date", "Consent Date", "timestamp", "undefined"),
                      FieldMapping("mhi_date", "MHI Survey Complete", "timestamp", "undefined"),
                      FieldMapping("meds_date_complete", "Medication History Survey Complete",
                                   "timestamp", "undefined"),
                      FieldMapping("seizure_formdate", "Seizure Survey Complete", "timestamp",
                                   "undefined"),
                      FieldMapping("survey_quality_of_life_inventory_disability_timestamp",
                                   "QoL Disability Survey Complete", "timestamp", "undefined"),
                      FieldMapping("cb_date", "Caregiver Burden Survey Complete", "timestamp",
                                   "undefined"),
                      FieldMapping("transition_page_completion_page_timestamp",
                                   "Total Survey Queue Surveys Complete", "timestamp",
                                   "undefined"),
                      FieldMapping("vl_date", "Vineland Assessments Complete", "timestamp",
                                   "undefined"),
                      FieldMapping("cbcl_survey_date", "CBCL Survey Date", "timestamp",
                                   "undefined")>>]

\* defaultConfig.fields of ConfigPage
PageDefaultFields == [groups |-> <<>>, timestamps |-> <<>>]

\* the longest field list the model lets the page build
MaxFields == 3

\* the field names fetchMetadata puts into availableFields
MetadataFields == {"gene"}

\* what the Add dialog can pass to onAdd: a field of availableFields with a
\* non-empty display name, of the type the dialog was opened for
AddableFields ==
    {FieldMapping(field, "Added", type, "undefined") :
        field \in MetadataFields, type \in {"group", "timestamp"}}

\* a configuration saved by an earlier session: one group and one timestamp field
StoredFields ==
    [groups |-> <<FieldMapping("gene", "Gene", "group", "{}")>>,
     timestamps |-> <<FieldMapping("consent_date", "Consent Date", "timestamp", "undefined")>>]

\* JSON.stringify of a configuration, as the value of its fields
Json(fields) == [k |-> "json", s |-> "", fields |-> fields]

\* App is constructed: config is JSON.parse of the saved item when there is one,
\* and the module's DEFAULT_CONFIG object otherwise. The fields objects are
\* named by the configuration object they were created in.
InitRoutedApp ==
    /\ savedConfig \in {Null, Json(StoredFields)}
    /\ appConfig = IF savedConfig = Null THEN Str("DEFAULT_CONFIG") ELSE Str("parsed")
    /\ pageConfig = Null
    /\ fieldsObjects =
          [id \in {"DEFAULT_CONFIG", "defaultConfig"}
                     \cup (IF savedConfig = Null THEN {} ELSE {"parsed"}) |->
              CASE id = "DEFAULT_CONFIG" -> RoutedDefaultFields
                [] id = "defaultConfig" -> PageDefaultFields
                [] id = "parsed" -> StoredFields]

\* the App without the route: config is its DEFAULT_CONFIG and stays so
InitSingleViewApp ==
    /\ savedConfig = Null
    /\ appConfig = Str("DEFAULT_CONFIG")
    /\ pageConfig = Null
    /\ fieldsObjects = [id \in {"DEFAULT_CONFIG"} |-> SingleViewDefaultFields]

HasConfigRoute == "defaultConfig" \in DOMAIN fieldsObjects

\* the route /config mounts ConfigPage: useState(initialConfig || defaultConfig)
OpenConfigPage ==
    /\ HasConfigRoute
    /\ pageConfig = Null
    /\ pageConfig' = IF appConfig # Null THEN appConfig ELSE Str("defaultConfig")
    /\ UNCHANGED <<dashVars, svc, normVars, appConfig, fieldsObjects, savedConfig, cacheVars>>

\* the route / unmounts ConfigPage
CloseConfigPage ==
    /\ pageConfig # Null
    /\ pageConfig' = Null
    /\ UNCHANGED <<dashVars, svc, normVars, appConfig, fieldsObjects, savedConfig, cacheVars>>

\* newConfig = { ...config } shares config.fields: the assignment to
\* newConfig.fields.groups or .timestamps writes into that one fields object
handleAddField(field) ==
    /\ pageConfig # Null
    /\ LET fields == fieldsObjects[pageConfig.s]
       IN IF field.type = "group"
          THEN /\ Len(fields.groups) < MaxFields
               /\ fieldsObjects' =
                     [fieldsObjects EXCEPT ![pageConfig.s].groups = Append(@, field)]
          ELSE /\ Len(fields.timestamps) < MaxFields
               /\ fieldsObjects' =
                     [fieldsObjects EXCEPT ![pageConfig.s].timestamps = Append(@, field)]
    /\ UNCHANGED <<dashVars, svc, normVars, appConfig, pageConfig, savedConfig, cacheVars>>

\* map: every entry with the redcapField of updatedField becomes updatedField
handleSaveEdit(updatedField) ==
    /\ pageConfig # Null
    /\ LET replaced(list) ==
              [i \in DOMAIN list |->
                  IF list[i].redcapField = updatedField.redcapField THEN updatedField
                  ELSE list[i]]
       IN IF updatedField.type = "group"
          THEN fieldsObjects' = [fieldsObjects EXCEPT ![pageConfig.s].groups = replaced(@)]
          ELSE fieldsObjects' = [fieldsObjects EXCEPT ![pageConfig.s].timestamps = replaced(@)]
    /\ UNCHANGED <<dashVars, svc, normVars, appConfig, pageConfig, savedConfig, cacheVars>>

\* filter((_, i) => i !== index), index counted from 1 here
handleRemoveField(type, index) ==
    /\ pageConfig # Null
    /\ LET without(list) == SubSeq(list, 1, index - 1) \o SubSeq(list, index + 1, Len(list))
       IN IF type = "group"
          THEN fieldsObjects' = [fieldsObjects EXCEPT ![pageConfig.s].groups = without(@)]
          ELSE fieldsObjects' = [fieldsObjects EXCEPT ![pageConfig.s].timestamps = without(@)]
    /\ UNCHANGED <<dashVars, svc, normVars, appConfig, pageConfig, savedConfig, cacheVars>>

\* Save Configuration: onSaveConfig(config) is handleConfigSave of App, which
\* sets config and writes its JSON to the store; the success dialog is modal
\* until its timer navigates to the dashboard, which unmounts the page
handleSave ==
    /\ pageConfig # Null
    /\ appConfig' = pageConfig
    /\ savedConfig' = Json(fieldsObjects[pageConfig.s])
    /\ pageConfig' = Null
    /\ UNCHANGED <<dashVars, svc, normVars, fieldsObjects, cacheVars>>

\* the Add dialog adds a field
AddField == \E field \in AddableFields : handleAddField(field)

\* The Edit dialog of a listed field is saved with the display name as it is:
\* onSave({...field, displayName, valueMappings}), where valueMappings is
\* undefined unless the object has keys
EditField ==
    /\ pageConfig # Null
    /\ \E type \in {"group", "timestamp"} :
          LET list == IF type = "group" THEN fieldsObjects[pageConfig.s].groups
                      ELSE fieldsObjects[pageConfig.s].timestamps
          IN \E i \in DOMAIN list :
                handleSaveEdit([list[i] EXCEPT
                                   !.valueMappings = IF @ = "mapped" THEN @ ELSE "undefined"])

\* the delete button of a listed field
RemoveField ==
    /\ pageConfig # Null
    /\ \E type \in {"group", "timestamp"} :
          LET list == IF type = "group" THEN fieldsObjects[pageConfig.s].groups
                      ELSE fieldsObjects[pageConfig.s].timestamps
          IN \E i \in DOMAIN list : handleRemoveField(type, i)

InitConfig ==
    /\ IdleDashboard
    /\ redcapConfig = DEFAULT_CONFIG
    /\ svc = IdleService
    /\ records = <<>>
    /\ participants = NotReturned
    /\ NoCache
    /\ InitRoutedApp \/ InitSingleViewApp

NextConfig ==
    \/ OpenConfigPage
    \/ CloseConfigPage
    \/ AddField
    \/ EditField
    \/ RemoveField
    \/ handleSave

SpecConfig == InitConfig /\ [][NextConfig]_vars

-----------------------------------------------------------------------------
(* RedcapApiService with the cache of fetched snapshots *)

DEFAULT_MAX_CACHE_ENTRIES == 10

\* this.config.maxCacheEntries || this.DEFAULT_MAX_CACHE_ENTRIES
maxEntriesOf(config) ==
    IF IsNum(config.maxCacheEntries) /\ config.maxCacheEntries.v # 0
    THEN config.maxCacheEntries.v
    ELSE DEFAULT_MAX_CACHE_ENTRIES

\* The keys under the prefix are ISO timestamps of one fixed width, so that
\* sort() orders them by time: a key is modelled by its instant.
\* while (cacheKeys.length > maxEntries) remove cacheKeys.shift()
RECURSIVE keysAfterCleanup(_, _)
keysAfterCleanup(cacheKeys, maxEntries) ==
    IF Cardinality(cacheKeys) > maxEntries
    THEN keysAfterCleanup(cacheKeys \ {CHOOSE oldestKey \in cacheKeys :
                                          \A key \in cacheKeys : oldestKey <= key},
                          maxEntries)
    ELSE cacheKeys

cleanupCache(items, maxEntries) ==
    [key \in keysAfterCleanup(DOMAIN items, maxEntries) |-> items[key]]

\* the instants new Date() can give to a save; the wall clock is free to repeat
\* an instant or to step back
CacheTimes == 1 .. 12

\* saveToCache(data) at the instant timestamp: setItem, then cleanupCache
saveToCache(timestamp) ==
    /\ LET items == [key \in DOMAIN cache \cup {timestamp} |->
                       IF key = timestamp THEN data ELSE cache[key]]
       IN cache' = cleanupCache(items, maxEntriesOf(redcapConfig))
    /\ cacheKey' = Num(timestamp)
    /\ UNCHANGED <<dashVars, svc, normVars, pageVars>>

\* setItem throws (the quota is exceeded): the catch logs, nothing is stored and
\* cleanupCache is not reached
saveToCacheFails ==
    /\ UNCHANGED <<dashVars, svc, normVars, pageVars, cache, cacheKey>>

\* the configured maximum: not set, or a number
MaxCacheEntriesSettings == {Undefined, Num(0), Num(1), Num(3)}

InitCache ==
    /\ IdleDashboard
    /\ \E m \in MaxCacheEntriesSettings :
          redcapConfig = [maxCacheEntries |-> m] @@ DEFAULT_CONFIG
    /\ svc = IdleService
    /\ records = <<>>
    /\ participants = NotReturned
    /\ NoConfigPage
    /\ NoCache

NextCache ==
    \/ \E timestamp \in CacheTimes : saveToCache(timestamp)
    \/ saveToCacheFails

SpecCache == InitCache /\ [][NextCache]_vars

-----------------------------------------------------------------------------
(* Properties of the cumulative series *)

IsActualPoint(p) ==
    /\ IsNum(p.total)
    /\ p.projected = Undefined /\ p.trendProjected = Undefined
    /\ p.upperBound = Undefined /\ p.lowerBound = Undefined

IsProjectionPoint(p) ==
    /\ p.total = Undefined
    /\ p.projected # Undefined /\ p.trendProjected # Undefined
    /\ p.upperBound # Undefined /\ p.lowerBound # Undefined

\* the month <<month index, year>> is the month of the instant t or an earlier one
MonthAtOrBefore(label, t) ==
    \/ label[2] < getFullYear(t)
    \/ label[2] = getFullYear(t) /\ label[1] <= getMonth(t)

\* C1: every point of the cumulative series is either an actual point (a numeric
\* total, no projection field) or a projection point (no total, the four
\* projection fields present); the actual points are exactly the periods at or
\* before the current month, the projection points exactly those after now.
C1_ActualOrProjected ==
    \A series \in {cumulativeData} :
       \A i \in DOMAIN series :
          /\ IsActualPoint(series[i]) \/ IsProjectionPoint(series[i])
          /\ IsActualPoint(series[i]) <=> MonthAtOrBefore(series[i].date, now)
          /\ IsProjectionPoint(series[i]) <=> series[i].timestamp > now.t

C1_Witness ==
    LET series == cumulativeData
    IN /\ Len(series) > AnchorMonths
       /\ IsActualPoint(series[AnchorMonths])
       /\ IsProjectionPoint(series[AnchorMonths + 1])

\* C2: the actual totals of the 12 anchor months never decrease from one anchor to
\* the next.
C2_ActualTotalsMonotone ==
    \A series \in {cumulativeData} :
       series # <<>> =>
          \A i \in 1 .. AnchorMonths - 1 : series[i].total.v <= series[i + 1].total.v

C2_Witness ==
    LET series == cumulativeData
    IN /\ series # <<>>
       /\ selectedGene # "ALL"
       /\ \E i \in 1 .. AnchorMonths - 1 : series[i].total.v < series[i + 1].total.v
       /\ \E i \in 1 .. AnchorMonths - 1 :
             series[i].total.v > 0 /\ series[i].total.v = series[i + 1].total.v

\* a <= b on JavaScript numbers: false when either is NaN
NumLeq(a, b) == IsNum(a) /\ IsNum(b) /\ a.v <= b.v

\* C3: at every projection point lowerBound <= trendProjected <= upperBound and
\* lowerBound >= the last actual total, whatever the records, the target and the
\* monthly trend override.
C3_BoundOrdering ==
    LET series == cumulativeData
    IN \A i \in DOMAIN series :
          i > AnchorMonths =>
             /\ NumLeq(series[i].lowerBound, series[i].trendProjected)
             /\ NumLeq(series[i].trendProjected, series[i].upperBound)
             /\ NumLeq(series[AnchorMonths].total, series[i].lowerBound)

\* C4: with a target date that does not parse or a target number that is no
\* number, the series is exactly the 12 actual points, with no projection point.
C4_InvalidTargetGivesActualsOnly ==
    LET series == cumulativeData
    IN (series # <<>> /\ (~parseISO(targetDate).valid \/ ~IsNum(parseInt(targetNumber)))) =>
          /\ Len(series) = AnchorMonths
          /\ \A i \in DOMAIN series : IsActualPoint(series[i])

\* the ISO date text s is a valid date in the month <<month index, year>> or in an
\* earlier month
DatedInOrBeforeMonth(s, label) ==
    /\ parseISO(s).valid
    /\ \/ s.y < label[2]
       \/ s.y = label[2] /\ s.m - 1 <= label[1]

\* C9: the actual total of each anchor month is the number of gene-filtered
\* records dated on or before the last calendar day of that month, at whatever
\* time of that day.
C9_TotalCountsThroughLastDay ==
    LET series == cumulativeData
    IN series # <<>> =>
          \A i \in 1 .. AnchorMonths :
             series[i].total.v =
                Cardinality({j \in DOMAIN data :
                    /\ selectedGene = "ALL" \/ data[j].gene = selectedGene
                    /\ DatedInOrBeforeMonth(data[j][selectedTimestamp], series[i].date)})

-----------------------------------------------------------------------------
(* Properties of the normaliser *)

AgeNotAvailable == "na"
AgeGroups == {"0-6", "7-17", "18-65", "65+"}

\* the raw age is missing, empty or has no integer value
AgeUnusable(raw) == raw.k # "string" \/ raw.s = <<>> \/ ~IsNum(parseInt(raw.s))

\* C5: a record whose raw age is empty, missing or not parseable as an integer
\* gets the not-available age label, never one of the numeric age groups.
C5_UnusableAgeIsNotAvailable ==
    participants.returned =>
       \A i \in DOMAIN records :
          AgeUnusable(records[i].current_age_yr) =>
             participants.value[i].age = AgeNotAvailable

\* C6: the normalised age is one of the four age groups or the not-available
\* label, and a raw age with the integer value a is in "0-6" iff a <= 6, in "7-17"
\* iff 7 <= a <= 17, in "18-65" iff 18 <= a <= 65, in "65+" iff a > 65.
C6_AgeGroupOfInteger ==
    participants.returned =>
       \A i \in DOMAIN records :
          LET raw == records[i].current_age_yr
              age == participants.value[i].age
          IN /\ age \in AgeGroups \cup {AgeNotAvailable}
             /\ ~AgeUnusable(raw) =>
                   LET a == parseInt(raw.s).v
                   IN /\ age = "0-6" <=> a <= 6
                      /\ age = "7-17" <=> (7 <= a /\ a <= 17)
                      /\ age = "18-65" <=> (18 <= a /\ a <= 65)
                      /\ age = "65+" <=> a > 65

C6_Witness ==
    /\ participants.returned
    /\ Len(records) = 2
    /\ records[1].current_age_yr = Chars(<<"1", "7">>)
    /\ participants.value[1].age = "7-17"
    /\ records[2].current_age_yr = Chars(<<"6", "6">>)
    /\ participants.value[2].age = "65+"

\* C7: of a batch in which some raw records have no record_id, exactly the
\* records that have one are returned (the others are skipped and counted).
C7_RecordsWithoutIdSkipped ==
    participants.returned =>
       /\ \A i \in DOMAIN participants.value : participants.value[i].record_id # NoChars
       /\ Len(participants.value)
            = Cardinality({j \in DOMAIN records : records[j].record_id # NoChars})

-----------------------------------------------------------------------------
(* Properties of the fetch *)

InFlight == svc.pc \in {"ids", "batch"}

\* C8: when the request for the record ids or for any batch fails (non-ok status,
\* network error or timeout), fetchRecruitmentData rejects with that error and
\* yields no records, not even those of batches fetched earlier in the call; the
\* dashboard keeps the data it had and has its error set.
C8_FailedFetchYieldsNothing ==
    [][(InFlight /\ svc'.response \in Responses \ {"ok"}) =>
          /\ svc'.pc = "settled"
          /\ svc'.outcome = "rejected"
          /\ svc'.error = errorOf(svc'.response, svc.pc)
          /\ svc'.value = <<>>
          /\ data' = data
          /\ error' = svc'.error
          /\ error' # Null]_vars

\* a refresh that failed after its first batch had arrived, over loaded data
C8_Witness ==
    /\ svc.pc = "settled"
    /\ svc.caller = "refresh"
    /\ svc.outcome = "rejected"
    /\ svc.allData # <<>>
    /\ svc.next = 2
    /\ data # <<>>
    /\ error # Null

\* C26: the timer of fetchWithTimeout fires only on a call still awaiting its
\* response, and the abort makes fetchRecruitmentData reject with the abort
\* error (the caller sets its error and keeps its data); when a call ends with a
\* response or a network error instead, its timer is cleared (the only armed
\* timer afterwards is that of the next request), so once fetchRecruitmentData
\* has settled no timer is left to fire.
C26_TimeoutAbortsElseTimerCancelled ==
    [][/\ (svc'.timer = "fired" /\ svc' # svc) =>
             /\ InFlight
             /\ svc.timer = "armed"
             /\ svc'.pc = "settled"
             /\ svc'.outcome = "rejected"
             /\ svc'.error = Str("The operation was aborted")
             /\ error' = svc'.error
             /\ data' = data
       /\ (InFlight /\ svc' # svc /\ svc'.timer # "fired") =>
             svc'.timer = (IF svc'.pc = "batch" THEN "armed" ELSE "cleared")
       /\ svc'.pc = "settled" => svc'.timer \in {"fired", "cleared"}
       /\ (svc.pc = "settled" /\ svc'.pc = "settled") => svc'.timer = svc.timer]_vars

\* a fetch whose first batch answered in time and whose second batch was aborted
\* by the timer
C26_Witness ==
    /\ svc.pc = "settled"
    /\ svc.response = "timeout"
    /\ svc.timer = "fired"
    /\ svc.next = 2
    /\ svc.allData # <<>>
    /\ svc.outcome = "rejected"

RECURSIVE Concatenation(_)
Concatenation(lists) ==
    IF lists = <<>> THEN <<>> ELSE Head(lists) \o Concatenation(Tail(lists))

\* what the server answers to the request for one batch, as fetchBatch returns it
batchResult(batch) == processParticipantData(rowsOf(records, batch))

\* C25: the ids containing 'NHS' are split into consecutive batches: the batches
\* laid end to end are exactly those ids in their order (each such id in exactly
\* one batch, no other id in any batch), every batch has at most batchSize ids
\* and all but the last exactly batchSize; the batches are requested one at a
\* time in order, so while batch number next is awaited the collected data is
\* the results of the batches before it, and the list returned is the
\* concatenation of all batch results in batch order.
C25_BatchesPartitionNhsIdsInOrder ==
    (svc.pc = "batch" \/ (svc.pc = "settled" /\ svc.batches # <<>>)) =>
       \A batches \in {svc.batches} :
          /\ Concatenation(batches)
               = SelectSeq(allRecordIdsOf(records),
                           LAMBDA id : \E i \in 1 .. Len(id) - 2 :
                                          id[i] = "N" /\ id[i + 1] = "H" /\ id[i + 2] = "S")
          /\ \A k \in DOMAIN batches :
                /\ Len(batches[k]) >= 1
                /\ Len(batches[k]) <= svc.batchSize
                /\ k < Len(batches) => Len(batches[k]) = svc.batchSize
          /\ svc.next \in DOMAIN batches
          /\ svc.pc = "batch" =>
                svc.allData
                  = Concatenation([k \in 1 .. svc.next - 1 |-> batchResult(batches[k])])
          /\ (svc.pc = "settled" /\ svc.outcome = "resolved") =>
                /\ svc.next = Len(batches)
                /\ svc.value
                     = Concatenation([k \in DOMAIN batches |-> batchResult(batches[k])])

\* a fetch that returned the rows of two batches from a project that also lists
\* an id without 'NHS'
C25_Witness ==
    /\ svc.pc = "settled"
    /\ svc.outcome = "resolved"
    /\ Len(svc.batches) = 2
    /\ Len(svc.value) = 2
    /\ Len(records) = 3

-----------------------------------------------------------------------------
(* Properties of the distribution chart *)

Weekly == Shown /\ selectedTimestamp \notin {"", "ALL"}

\* the instant a date text names, when it names one
NamesInstantAfter(text, t) ==
    /\ text.k = "iso"
    /\ MonthStart[text.y][text.m - 1] * 24 + (text.d - 1) * 24 + text.h > t

\* the display value of the selected group field of a record
CategoryOf(record) ==
    IF selectedGroup = "ALL" THEN "Total"
    ELSE LET raw == record[selectedGroup]
             mappings == group2Mappings(redcapConfig, selectedGroup)
         IN IF raw \in DOMAIN mappings THEN mappings[raw] ELSE raw

\* C10: in the weekly series the count of category c at week start w is the
\* number of records of the selected gene and of category c whose date in the
\* time field is strictly after w; a record dated exactly at w is not counted
\* at w, and a record is counted at every week start before its date.
C10_WeeklyCountStrictlyAfter ==
    Weekly =>
       \A shown \in {chartData}, fd \in {filteredData(data, selectedGene)},
          weeks \in {weekIntervals(now)} :
          /\ Len(shown) = Len(weeks)
          /\ \A i \in DOMAIN shown :
                /\ {CategoryOf(fd[j]) : j \in DOMAIN fd} \subseteq DOMAIN shown[i].count
                /\ \A c \in DOMAIN shown[i].count :
                      shown[i].count[c] =
                         Cardinality({j \in DOMAIN fd :
                            /\ CategoryOf(fd[j]) = c
                            /\ NamesInstantAfter(fd[j][selectedTimestamp], weeks[i].t)})

\* a record dated at the last week start (midnight of Sunday 2024-03-31) is left
\* out there and counted at the week start before
C10_Witness ==
    /\ Weekly
    /\ selectedTimestamp = "consent_date"
    /\ selectedGroup = "gene"
    /\ now = JsDate(2024, 2, 31, 12)
    /\ Len(data) = 2
    /\ data[1].consent_date = IsoText(2024, 3, 31, 0)
    /\ data[1].gene = "KIF1A"
    /\ Len(chartData) >= 2
    /\ chartData[Len(chartData)].count["KIF1A"] = 0
    /\ chartData[Len(chartData) - 1].count["KIF1A"] >= 1

Snapshot == Shown /\ selectedTimestamp = "ALL"

\* the records left by the gene filter, as positions of data
GeneFiltered == {j \in DOMAIN data : selectedGene = "ALL" \/ data[j].gene = selectedGene}

\* the display values of the filtered records in the order of their first occurrence
RECURSIVE FirstEncountered(_, _)
FirstEncountered(j, seen) ==
    IF j > Len(data) THEN seen
    ELSE IF j \in GeneFiltered /\ \A n \in DOMAIN seen : seen[n] # CategoryOf(data[j])
         THEN FirstEncountered(j + 1, Append(seen, CategoryOf(data[j])))
         ELSE FirstEncountered(j + 1, seen)

\* C11: in the snapshot with a group field selected, the points come in the order
\* in which their display values are first met in the gene-filtered records,
\* whatever the labels are (numeric strings included).
C11_SnapshotFirstSeenOrder ==
    (Snapshot /\ selectedGroup # "ALL") =>
       [i \in DOMAIN chartData |-> chartData[i].name] = FirstEncountered(1, <<>>)

\* C12: with the time field 'ALL', the snapshot for the group 'ALL' is one point
\* holding the number of gene-filtered records; for a group field it has one
\* point per distinct display value among the gene-filtered records, holding the
\* number of filtered records with that value, and the values add up to the
\* number of filtered records. The gene filter keeps exactly the records of the
\* selected gene, and all records for 'ALL'.
C12_SnapshotCounts ==
    Snapshot =>
       \A shown \in {chartData} :
          LET names == {shown[i].name : i \in DOMAIN shown}
          IN /\ selectedGroup = "ALL" =>
                   shown = <<[name |-> "Total", value |-> Cardinality(GeneFiltered)]>>
             /\ selectedGroup # "ALL" =>
                   /\ names = {CategoryOf(data[j]) : j \in GeneFiltered}
                   /\ Len(shown) = Cardinality(names)
                   /\ \A i \in DOMAIN shown :
                         shown[i].value =
                            Cardinality({j \in GeneFiltered :
                                            CategoryOf(data[j]) = shown[i].name})
             /\ SumSeq([i \in DOMAIN shown |-> shown[i].value]) = Cardinality(GeneFiltered)

\* two records of different countries shown under one label, a gene selected that
\* one of three records does not have
C12_Witness ==
    /\ Snapshot
    /\ selectedGroup = "location_country"
    /\ redcapConfig = MAPPED_CONFIG
    /\ selectedGene = "KIF1A"
    /\ Len(data) = 2
    /\ Cardinality(GeneFiltered) = 1
    /\ chartData = <<[name |-> "World", value |-> 1]>>

-----------------------------------------------------------------------------
(* Properties of the projection *)

\* the whole months from now to the target date, when the target date is a date
WholeMonthsToTarget == differenceInMonths(parseISO(targetDate), now)

\* the integer nearest to num / den (den > 0), the upper one of two
NearestInteger(num, den) ==
    CHOOSE k \in -100 .. 100 : 2 * den * k <= 2 * num + den /\ 2 * num + den < 2 * den * (k + 1)

\* C13: when the whole months from now to the target date, minus one, are <= 0,
\* the series is exactly the 12 actual points, without a projection point, and no
\* error is raised.
C13_NearTargetGivesActualsOnly ==
    LET series == cumulativeData
    IN (series # <<>> /\ IsNum(WholeMonthsToTarget) /\ WholeMonthsToTarget.v - 1 <= 0) =>
          /\ Len(series) = AnchorMonths
          /\ \A i \in DOMAIN series : IsActualPoint(series[i])
          /\ error = Null

\* a target date one month from now, over loaded records
C13_Witness ==
    /\ data # <<>>
    /\ now = JsDate(2024, 2, 31, 12)
    /\ targetDate = IsoText(2024, 4, 30, 0)
    /\ WholeMonthsToTarget = Num(1)
    /\ Len(cumulativeData) = AnchorMonths

\* C14: when monthsToTarget > 0 and the target count is a number, there are
\* exactly monthsToTarget projection points, the i-th has projected =
\* lastActual + i * (targetCount - lastActual) / monthsToTarget rounded to the
\* nearest integer, and the last one has projected = targetCount.
C14_TargetLineReachesCount ==
    LET series == cumulativeData
        months == WholeMonthsToTarget.v - 1
        count == parseInt(targetNumber)
    IN (series # <<>> /\ IsNum(WholeMonthsToTarget) /\ months > 0 /\ IsNum(count)) =>
          LET lastActual == series[AnchorMonths].total.v
          IN /\ Len(series) = AnchorMonths + months
             /\ \A i \in 1 .. months :
                   /\ IsProjectionPoint(series[AnchorMonths + i])
                   /\ series[AnchorMonths + i].projected =
                         Num(NearestInteger(lastActual * months
                                              + i * (count.v - lastActual), months))
             /\ series[AnchorMonths + months].projected = count

\* four months to a target of 10 from 2 records: the line passes 4, 6, 8, 10
C14_Witness ==
    LET series == cumulativeData
    IN /\ Len(series) = AnchorMonths + 4
       /\ series[AnchorMonths].total = Num(2)
       /\ targetNumber = <<"1", "0">>
       /\ series[AnchorMonths + 1].projected = Num(4)
       /\ series[AnchorMonths + 4].projected = Num(10)

\* the month, counted from year 0, of a date text that names a date
MonthOfText(text) == text.y * 12 + text.m - 1

\* data is 12 records, one dated in each of the 12 months ending at the current one
OnePerTrailingMonth ==
    /\ Len(data) = AnchorMonths
    /\ \A j \in DOMAIN data : parseISO(data[j][selectedTimestamp]).valid
    /\ \A k \in 0 .. AnchorMonths - 1 :
          \E j \in DOMAIN data :
             MonthOfText(data[j][selectedTimestamp])
                = getFullYear(now) * 12 + getMonth(now) - k

RECURSIVE PowerOfTen(_)
PowerOfTen(n) == IF n = 0 THEN 1 ELSE 10 * PowerOfTen(n - 1)

SuppliedNumber(text) ==
    LET neg == text # <<>> /\ Head(text) = "-"
        body == IF neg THEN Tail(text) ELSE text
        whole == DigitPrefix(body)
        rest == SubSeq(body, Len(whole) + 1, Len(body))
        fraction == IF rest # <<>> /\ Head(rest) = "." THEN DigitPrefix(Tail(rest)) ELSE <<>>
        magnitude == DigitsValue(whole \o fraction, 0)
    IN [num |-> IF neg THEN 0 - magnitude ELSE magnitude, den |-> PowerOfTen(Len(fraction))]

\* C16: the trend rate behind trendProjected is the monthly trend override
\* whenever one is supplied, whatever its value (0 included), and the average
\* monthly growth only when none is supplied: the i-th projection point has
\* trendProjected = lastActual + i * rate, rounded.
C16_TrendRateIsOverride ==
    LET series == cumulativeData
    IN \A n \in DOMAIN series :
          n > AnchorMonths =>
             LET lastActual == series[AnchorMonths].total.v
                 growths == [i \in 1 .. AnchorMonths - 1 |->
                               series[i + 1].total.v - series[i].total.v]
                 rate == IF monthlyTarget # <<>> THEN SuppliedNumber(monthlyTarget)
                         ELSE [num |-> SumSeq(growths), den |-> AnchorMonths - 1]
             IN series[n].trendProjected =
                   Num(NearestInteger(lastActual * rate.den + (n - AnchorMonths) * rate.num,
                                      rate.den))

-----------------------------------------------------------------------------
(* Properties of the normaliser: race, gene, coded fields, other fields *)

\* the label of the first flag that is '1' in the order 1, 2, 3, 4, 5, 6, 99
RECURSIVE FirstSetFlagLabel(_, _)
FirstSetFlagLabel(flags, k) ==
    IF k > Len(RaceOrder) THEN "Unknown"
    ELSE IF flags[RaceOrder[k]] = Str("1") THEN RaceLabel(RaceOrder[k])
    ELSE FirstSetFlagLabel(flags, k + 1)

\* C17: the normalised race is the label of the first race___N flag equal to '1'
\* in the order 1, 2, 3, 4, 5, 6, 99, and 'Unknown' when no flag is set.
C17_FirstSetRaceFlagWins ==
    participants.returned =>
       \A i \in DOMAIN records :
          participants.value[i].race = FirstSetFlagLabel(records[i].race, 1)

\* C18: a raw gene code that is a key of the gene mapping table is normalised to
\* the mapped gene symbol, and every other raw gene code is kept unchanged.
C18_GeneMappedOrPassedThrough ==
    participants.returned =>
       \A i \in DOMAIN records :
          LET raw == records[i].gene
              gene == participants.value[i].gene
          IN raw.k = "string" =>
                /\ raw.s \in DOMAIN GENE_MAPPINGS => gene = GENE_MAPPINGS[raw.s]
                /\ raw.s \notin DOMAIN GENE_MAPPINGS => gene = raw.s

C18_Witness ==
    /\ participants.returned
    /\ Len(records) = 2
    /\ records[1].gene = Str("99")
    /\ participants.value[1].gene = "99"
    /\ records[2].gene = Str("7")
    /\ participants.value[2].gene = "CACNA1A"

\* C19: the consent location is 'Boston' iff the raw consent code is '1' and
\* 'Others' for every other value, empty and missing included; the country is
\* 'United States' iff the raw country code is '1' and 'Others' otherwise.
C19_CodedFieldsResolved ==
    participants.returned =>
       \A i \in DOMAIN records :
          LET normal == participants.value[i]
          IN /\ normal.consent_location \in {"Boston", "Others"}
             /\ normal.consent_location = "Boston" <=> records[i].consent_bch = Str("1")
             /\ normal.location_country \in {"United States", "Others"}
             /\ normal.location_country = "United States"
                   <=> records[i].location_country = Str("1")

C19_Witness ==
    /\ participants.returned
    /\ Len(records) = 2
    /\ records[1].consent_bch = Undef
    /\ participants.value[1].consent_location = "Others"
    /\ participants.value[1].location_country = "United States"
    /\ records[2].location_country = Str("")
    /\ participants.value[2].location_country = "Others"
    /\ participants.value[2].consent_location = "Others"

\* the raw fields the normaliser reads
MappedRawFields ==
    {"record_id", "current_age_yr", "race", "ethnicity", "consent_bch", "location_country",
     "gene", "consent_bch_date"}

\* C20: every field of a raw record that is not one of the mapped fields is on
\* the normalised record under the same key, with its value as a string.
C20_OtherFieldsPreserved ==
    participants.returned =>
       \A i \in DOMAIN records :
          \A key \in DOMAIN records[i] \ MappedRawFields :
             /\ key \in DOMAIN participants.value[i]
             /\ participants.value[i][key] = records[i][key]

-----------------------------------------------------------------------------
(* Properties of the two series on records with and without usable dates *)

\* the record has no usable date in the selected time field
Undated(record) ==
    LET text == record[selectedTimestamp]
    IN text.k # "iso" \/ text.d > DaysInMonth(text.y, text.m - 1)

DatedRecords == SelectSeq(data, LAMBDA record : ~Undated(record))

\* C21: a record whose value of the selected time field is missing, empty or no
\* date adds nothing to any weekly count and nothing to any monthly actual
\* total (both series are what they are without such records), and it is
\* counted in the snapshot distribution.
C21_UndatedRecordsLeftOutOfSeries ==
    Weekly =>
       \A shown \in {chartData},
          weekly \in {processTimeSeriesData(DatedRecords, redcapConfig, selectedGene,
                                            selectedGroup, selectedTimestamp, now)},
          series \in {cumulativeData},
          monthly \in {processCumulativeData(DatedRecords, selectedGene, selectedTimestamp,
                                             targetDate, targetNumber, monthlyTarget, now)},
          snapshot \in {processTimeSeriesData(data, redcapConfig, selectedGene,
                                              selectedGroup, "ALL", now)},
          fd \in {filteredData(data, selectedGene)} :
          /\ Len(shown) = Len(weekly)
          /\ \A i \in DOMAIN shown :
                \A c \in DOMAIN shown[i].count :
                   shown[i].count[c] =
                      IF c \in DOMAIN weekly[i].count THEN weekly[i].count[c] ELSE 0
          /\ \A i \in 1 .. AnchorMonths : series[i].total = monthly[i].total
          /\ \A j \in DOMAIN fd :
                \E n \in DOMAIN snapshot :
                   /\ snapshot[n].name = CategoryOf(fd[j])
                   /\ snapshot[n].value =
                         Cardinality({k \in DOMAIN fd : CategoryOf(fd[k]) = CategoryOf(fd[j])})

\* one record with a text that is no date, one without the field, one dated
\* inside the window: only the last is in the series, all three in the snapshot
C21_Witness ==
    /\ Weekly
    /\ selectedTimestamp = "consent_date"
    /\ selectedGene = "ALL"
    /\ selectedGroup = "ALL"
    /\ now = JsDate(2024, 2, 31, 12)
    /\ data[1].consent_date = OtherText
    /\ data[2].consent_date = UndefinedText
    /\ chartData[1].count["Total"] = 1
    /\ cumulativeData[AnchorMonths].total = Num(1)
    /\ processTimeSeriesData(data, redcapConfig, selectedGene, selectedGroup, "ALL", now)
          = <<[name |-> "Total", value |-> 3]>>

\* C29: in the weekly series the count of every category at a week start is at
\* most its count at the week start before, and every point has a count for
\* the same categories: 'Total' for the group 'ALL', otherwise the distinct
\* display values of the group field among the records of the selected gene.
C29_WeeklyCountsNonIncreasing ==
    Weekly =>
       \A shown \in {chartData} :
          \A categories \in {IF selectedGroup = "ALL" THEN {"Total"}
                              ELSE {CategoryOf(data[j]) : j \in GeneFiltered}} :
             /\ \A i \in DOMAIN shown : DOMAIN shown[i].count = categories
             /\ \A i \in 1 .. Len(shown) - 1 :
                   \A c \in categories : shown[i + 1].count[c] <= shown[i].count[c]

\* two categories, one of them with a count that drops from one week start to
\* the next and is 0 at the last
C29_Witness ==
    /\ Weekly
    /\ Cardinality(DOMAIN chartData[1].count) = 2
    /\ \E i \in 1 .. Len(chartData) - 1 :
          \E c \in DOMAIN chartData[1].count :
             /\ chartData[i + 1].count[c] < chartData[i].count[c]
             /\ chartData[Len(chartData)].count[c] = 0

\* C22: with a time field selected the distribution has one point per week start
\* lying in the window from three months before now up to now, in increasing
\* date order, and every one of these week starts is a Monday.
C22_WeekStartsAreMondaysInWindow ==
    Weekly =>
       \A shown \in {chartData}, weeks \in {weekIntervals(now)},
          start \in {subMonths(now, WindowMonths)} :
          /\ Len(shown) = Len(weeks)
          /\ \A i \in DOMAIN weeks :
                /\ shown[i].name = formatDay(weeks[i])
                /\ getDay(weeks[i]) = 1
                /\ getHours(weeks[i]) = 0
                /\ start.t <= weeks[i].t
                /\ weeks[i].t <= now.t
                /\ i > 1 => weeks[i - 1].t < weeks[i].t
          /\ \A day \in DayOf(start) .. DayOf(now) :
                (getDay(Instant(day, 0)) = 1 /\ start.t <= day * 24)
                   => \E i \in DOMAIN weeks : weeks[i] = Instant(day, 0)

-----------------------------------------------------------------------------
(* Properties of the configuration *)

\* no two entries of the list have the same source field name
UniqueSourceFields(list) ==
    \A i \in DOMAIN list, j \in DOMAIN list :
       i # j => list[i].redcapField # list[j].redcapField

\* the configurations in use: the one App holds and the page's working copy
ConfigurationsInUse == {appConfig.s} \cup (IF pageConfig = Null THEN {} ELSE {pageConfig.s})

\* C23: whatever fields are added, edited and removed, starting from a default
\* or a saved configuration, no two entries of the group list have the same
\* source field name, and no two entries of the timestamp list have.
C23_SourceFieldsUnique ==
    \A id \in ConfigurationsInUse :
       /\ UniqueSourceFields(fieldsObjects[id].groups)
       /\ UniqueSourceFields(fieldsObjects[id].timestamps)

\* the field lists of the configuration App holds, and of the module-level
\* defaults of App and of the page
HeldFields(objects) ==
    [id \in {appConfig.s} \cup ({"DEFAULT_CONFIG", "defaultConfig"} \cap DOMAIN objects)
       |-> objects[id]]

\* C28: adding, editing or removing a field on the configuration page leaves the
\* configuration App holds, and the module-level defaults, as they were.
C28_EditsTouchOnlyWorkingCopy ==
    [][(AddField \/ EditField \/ RemoveField) =>
          /\ appConfig' = appConfig
          /\ HeldFields(fieldsObjects') = HeldFields(fieldsObjects)]_vars

-----------------------------------------------------------------------------
(* Properties of the growth figure *)

\* the average growth the cumulative series uses as its trend rate
trendRateOfSelection ==
    avgGrowth(monthlyGrowths(anchorPoints(data, selectedGene, selectedTimestamp, now)))

\* C30: whenever the cumulative series is computed (the dashboard is shown and a
\* time field is selected), averageMonthlyGrowth is the average growth the
\* series uses as its trend rate for the selected gene and time field.
C30_GrowthFigureIsTrendRate ==
    (Shown /\ selectedTimestamp \notin {"", "ALL"}) =>
       \A used \in {trendRateOfSelection} :
          averageMonthlyGrowth.num * used.den = used.num * averageMonthlyGrowth.den

-----------------------------------------------------------------------------
(* Properties of the cache *)

\* C24: after every save with its cleanup the number of stored snapshots is at
\* most the configured maximum (10 when none is configured), every entry the
\* cleanup removed is older than every entry kept, and the snapshot just saved
\* is kept.
C24_CacheBoundedOldestEvicted ==
    [][cacheKey' # cacheKey \/ cache' # cache =>
          LET configured == redcapConfig.maxCacheEntries
              written == DOMAIN cache \cup {cacheKey'.v}
          IN /\ Cardinality(DOMAIN cache') <=
                   (IF IsNum(configured) THEN configured.v ELSE DEFAULT_MAX_CACHE_ENTRIES)
             /\ \A removed \in written \ DOMAIN cache' :
                   \A kept \in DOMAIN cache' : removed < kept
             /\ cacheKey'.v \in DOMAIN cache']_vars

====
